---- MODULE Spec2Model ----
(***************************************************************************)
(* k8s-resource-mapper: relationship discovery and graph assembly.         *)
(*                                                                         *)
(* The repository holds two families of the same logic:                    *)
(*   - the coordinator of mapper.go (ResourceMapper) with the sequential   *)
(*     processors of resources.go and of the two unnamed mapper files,     *)
(*     whose interface is Process(ctx, namespace) / GetRelationships();    *)
(*   - the aggregator of common-processing.go (ProcessResources over a     *)
(*     ProcessingQueue) with the fan-out processors of                     *)
(*     deployment-processor.go, service-processor.go and config.go, whose  *)
(*     interface is Process(ctx) / GetResources() / GetRelationships().    *)
(* Each family is modelled by its own specification over the same          *)
(* cluster model.                                                          *)
(***************************************************************************)
EXTENDS Integers, Sequences, FiniteSets, TLC

\* ------------------------------------------------------------------------
\* Bounds of the model
\* ------------------------------------------------------------------------
MaxListFailures == 2

\* ------------------------------------------------------------------------
\* Generic helpers
\* ------------------------------------------------------------------------
RECURSIVE ConcatAll(_)
ConcatAll(ss) == IF ss = <<>> THEN <<>> ELSE Head(ss) \o ConcatAll(Tail(ss))

Range(s) == {s[i] : i \in 1..Len(s)}

RECURSIVE JoinStrings(_, _)
JoinStrings(s, sep) ==
    IF s = <<>> THEN ""
    ELSE IF Len(s) = 1 THEN s[1]
    ELSE s[1] \o sep \o JoinStrings(Tail(s), sep)

\* a Go nil error; an error is a non-empty chain of messages, outermost first
Nil == <<>>

\* ------------------------------------------------------------------------
\* types.go: Resource, Relationship, ResourceMapping
\* ------------------------------------------------------------------------
ResourceTypeNamespace == "Namespace"
ResourceTypePod == "Pod"
ResourceTypeService == "Service"
ResourceTypeIngress == "Ingress"
ResourceTypeConfigMap == "ConfigMap"
ResourceTypeDeployment == "Deployment"
ResourceTypeHPA == "HPA"
ResourceTypeSecret == "Secret"
ResourceTypeIngressClass == "IngressClass"

RelationshipTypeOwns == "owns"
RelationshipTypeUses == "uses"
RelationshipTypeExposes == "exposes"
RelationshipTypeTargets == "targets"

Resource(type, namespace, name) ==
    [Type |-> type, Namespace |-> namespace, Name |-> name]

Relationship(source, target, type, description) ==
    [Source |-> source, Target |-> target, Type |-> type,
     Description |-> description]

EmptyResourceMapping == [Resources |-> <<>>, Relationships |-> <<>>]

\* common-types.go: ResourceKey
ResourceKey(resource) ==
    resource.Type \o "/" \o resource.Namespace \o "/" \o resource.Name

\* ------------------------------------------------------------------------
\* The cluster behind the provider (the objects the API server holds)
\* ------------------------------------------------------------------------
VARIABLES
    failing,      \* the List calls the provider refuses: pairs <<namespace, kind>>
    ingresses,    \* the Ingress objects of namespace "default"
    webSelector,  \* Spec.Selector of Service web-svc: [hasSelector, selector]
    cancelled     \* the context of the run is cancelled

clusterVars == <<failing, ingresses, webSelector, cancelled>>

NsList == <<"default", "restricted">>

Label(k, v) == <<k, v>>

NoTemplate == [volumes |-> {}, envFrom |-> {}, env |-> {}]

Deployments(ns) ==
    CASE ns = "default" ->
           << [name |-> "web", selector |-> {Label("app", "web")},
               ready |-> 2, replicas |-> 2,
               template |-> [volumes |-> {"web-config"},
                             envFrom |-> {"web-config"},
                             env |-> {"web-config", "ghost-config"}]],
              [name |-> "worker", selector |-> {Label("app", "job")},
               ready |-> 0, replicas |-> 1, template |-> NoTemplate] >>
      [] ns = "restricted" ->
           << [name |-> "api", selector |-> {Label("app", "api")},
               ready |-> 1, replicas |-> 3, template |-> NoTemplate] >>
      [] OTHER -> <<>>

Pods(ns) ==
    CASE ns = "default" ->
           << [name |-> "web-1", labels |-> {Label("app", "web"), Label("tier", "front")},
               spec |-> [volumes |-> {"web-config"}, envFrom |-> {}, env |-> {}]],
              [name |-> "job-1", labels |-> {Label("app", "job")},
               spec |-> NoTemplate] >>
      [] ns = "restricted" ->
           << [name |-> "api-1", labels |-> {Label("app", "api")},
               spec |-> NoTemplate] >>
      [] OTHER -> <<>>

HPAs(ns) ==
    CASE ns = "default" ->
           << [name |-> "web-hpa", targetKind |-> "Deployment",
               targetName |-> "web", minReplicas |-> 2, maxReplicas |-> 5],
              [name |-> "web-set-hpa", targetKind |-> "StatefulSet",
               targetName |-> "web", minReplicas |-> 1, maxReplicas |-> 3],
              [name |-> "ghost-hpa", targetKind |-> "Deployment",
               targetName |-> "ghost", minReplicas |-> 1, maxReplicas |-> 2] >>
      [] ns = "restricted" ->
           << [name |-> "api-hpa", targetKind |-> "Deployment",
               targetName |-> "api", minReplicas |-> 1, maxReplicas |-> 4] >>
      [] OTHER -> <<>>

Port(port, targetPort, protocol) ==
    [port |-> port, targetPort |-> targetPort, protocol |-> protocol]

\* a Spec.Selector: nil, or a map given as the set of its key/value pairs
NoSelector == [hasSelector |-> FALSE, selector |-> {}]
Selector(pairs) == [hasSelector |-> TRUE, selector |-> pairs]

ScenarioSelector == Selector({Label("app", "web")})

Services(ns) ==
    CASE ns = "default" ->
           << [name |-> "web-svc", hasSelector |-> webSelector.hasSelector,
               selector |-> webSelector.selector,
               ports |-> <<Port(80, 8080, "TCP")>>,
               type |-> "ClusterIP", clusterIP |-> "10.0.0.10"],
              [name |-> "admin-svc", hasSelector |-> TRUE,
               selector |-> {Label("app", "job")},
               ports |-> <<Port(443, 8443, "TCP")>>,
               type |-> "ClusterIP", clusterIP |-> "10.0.0.11"] >>
      [] ns = "restricted" ->
           << [name |-> "api-svc", hasSelector |-> TRUE,
               selector |-> {Label("app", "api")},
               ports |-> <<Port(80, 9090, "TCP")>>,
               type |-> "ExternalName", clusterIP |-> ""] >>
      [] OTHER -> <<>>

\* the Endpoints objects, named after their Service; addresses holds the number
\* of addresses of each subset.  api-svc has no Endpoints object.
Endpoints(ns) ==
    CASE ns = "default" ->
           << [name |-> "web-svc", addresses |-> <<2, 1>>],
              [name |-> "admin-svc", addresses |-> <<>>] >>
      [] OTHER -> <<>>

ConfigMaps(ns) ==
    CASE ns = "default" -> << [name |-> "web-config"] >>
      [] OTHER -> <<>>

Secrets(ns) ==
    CASE ns = "default" -> << [name |-> "web-tls"] >>
      [] OTHER -> <<>>

IngressClasses == << [name |-> "nginx", controller |-> "k8s.io/ingress-nginx"] >>

\* the scenario's Ingress: one host, two path rules on the same Service
NoService == ""
ScenarioIngress ==
    [name |-> "web-ing",
     defaultBackend |-> NoService,
     rules |-> << [host |-> "app.example.com", http |-> TRUE,
                   paths |-> << [path |-> "/", service |-> "web-svc"],
                                [path |-> "/api", service |-> "web-svc"] >>] >>,
     tls |-> << [secretName |-> "web-tls", hosts |-> <<"app.example.com">>] >>,
     className |-> "nginx"]

Ingresses(ns) == IF ns = "default" THEN ingresses ELSE <<>>

Stored(kind, ns) ==
    CASE kind = ResourceTypeDeployment -> Deployments(ns)
      [] kind = ResourceTypePod -> Pods(ns)
      [] kind = ResourceTypeHPA -> HPAs(ns)
      [] kind = ResourceTypeService -> Services(ns)
      [] kind = ResourceTypeConfigMap -> ConfigMaps(ns)
      [] kind = ResourceTypeSecret -> Secrets(ns)
      [] kind = ResourceTypeIngress -> Ingresses(ns)
      [] kind = ResourceTypeIngressClass -> IngressClasses
      [] kind = "Endpoints" -> Endpoints(ns)
      [] OTHER -> <<>>

\* Provider contract: List(namespace) -> (items, error); a call made with a
\* cancelled context returns the context's error
List(kind, ns) ==
    IF <<ns, kind>> \in failing \/ cancelled
    THEN [err |-> TRUE, items |-> <<>>]
    ELSE [err |-> FALSE, items |-> Stored(kind, ns)]

\* ListPods matching a pod as soon as its labels hold one pair of the selector
ListPods_any(ns, selector) ==
    [err |-> List(ResourceTypePod, ns).err,
     items |-> SelectSeq(List(ResourceTypePod, ns).items,
                         LAMBDA p : selector \cap p.labels # {})]

\* List of pods with a label selector: the pods whose labels hold every pair
ListPods(ns, selector) ==
    LET l == List(ResourceTypePod, ns)
    IN  [err |-> l.err,
         items |-> SelectSeq(l.items, LAMBDA p : selector \subseteq p.labels)]

\* metav1.FormatLabelSelector of a selector with these MatchLabels: the text
\* "<none>" for a map without entries, else the requirements "k=v,..."
FormatLabelSelector(matchLabels) ==
    [none |-> matchLabels = {}, requirements |-> matchLabels]

\* Pods(namespace).List with ListOptions.LabelSelector set to the formatted
\* selector: the provider parses the text back and refuses "<none>", which is
\* not a label selector
ListPodsSelected(ns, labelSelector) ==
    IF labelSelector.none THEN [err |-> TRUE, items |-> <<>>]
    ELSE ListPods(ns, labelSelector.requirements)

\* Provider contract: Get(namespace, name) -> (item, error); NotFound when absent
Get(kind, ns, name) ==
    LET found == SelectSeq(Stored(kind, ns), LAMBDA o : o.name = name)
    IN  IF found = <<>> \/ cancelled THEN [err |-> TRUE, item |-> [name |-> name]]
        ELSE [err |-> FALSE, item |-> found[1]]

\* ------------------------------------------------------------------------
\* The sequential processors behind types.ResourceProcessor
\* (Process(ctx, namespace), GetRelationships())
\* ------------------------------------------------------------------------
ProcessorResult(err, resources, relations) ==
    [err |-> err, resources |-> resources, relations |-> relations]

PodResources(ns, pods) ==
    [i \in 1..Len(pods) |-> Resource(ResourceTypePod, ns, pods[i].name)]

Digit(d) ==
    CASE d = 0 -> "0" [] d = 1 -> "1" [] d = 2 -> "2" [] d = 3 -> "3" [] d = 4 -> "4"
      [] d = 5 -> "5" [] d = 6 -> "6" [] d = 7 -> "7" [] d = 8 -> "8" [] d = 9 -> "9"

\* fmt.Sprintf("%d", n) for n >= 0
RECURSIVE IntString(_)
IntString(n) == IF n < 10 THEN Digit(n) ELSE IntString(n \div 10) \o Digit(n % 10)

\* resources.go: the body of the loop over deployments.Items
DeploymentProcessorSeq_item(ns, deploy) ==
    LET deployResource == Resource(ResourceTypeDeployment, ns, deploy.name)
        pods == ListPods(ns, deploy.selector)
        podRes == PodResources(ns, pods.items)
        podRels == [i \in 1..Len(podRes) |->
                      Relationship(deployResource, podRes[i],
                                   RelationshipTypeOwns, "controls pod")]
        hpas == List(ResourceTypeHPA, ns)
        mine == SelectSeq(hpas.items,
                    LAMBDA h : h.targetKind = "Deployment" /\ h.targetName = deploy.name)
        hpaRes == [i \in 1..Len(mine) |-> Resource(ResourceTypeHPA, ns, mine[i].name)]
        hpaRels == [i \in 1..Len(mine) |->
                      Relationship(hpaRes[i], deployResource, RelationshipTypeTargets,
                          "scales between " \o IntString(mine[i].minReplicas)
                            \o " and " \o IntString(mine[i].maxReplicas) \o " replicas")]
    IN  IF pods.err
        THEN ProcessorResult(Nil, <<deployResource>>, <<>>)          \* continue
        ELSE IF hpas.err
        THEN ProcessorResult(Nil, <<deployResource>> \o podRes, podRels) \* continue
        ELSE ProcessorResult(Nil, <<deployResource>> \o podRes \o hpaRes,
                             podRels \o hpaRels)

\* resources.go: DeploymentProcessor.Process(ctx, namespace)
DeploymentProcessorSeq_Process(ns) ==
    LET deployments == List(ResourceTypeDeployment, ns)
        parts == [i \in 1..Len(deployments.items) |->
                    DeploymentProcessorSeq_item(ns, deployments.items[i])]
    IN  IF deployments.err
        THEN ProcessorResult(<<"failed to list deployments">>, <<>>, <<>>)
        ELSE ProcessorResult(Nil,
                 ConcatAll([i \in 1..Len(parts) |-> parts[i].resources]),
                 ConcatAll([i \in 1..Len(parts) |-> parts[i].relations]))

\* every (rule, path) of an Ingress, in declared order, for rules with HTTP
IngressPaths(ing) ==
    ConcatAll([i \in 1..Len(ing.rules) |->
        IF ing.rules[i].http
        THEN [j \in 1..Len(ing.rules[i].paths) |->
                [host |-> ing.rules[i].host,
                 path |-> ing.rules[i].paths[j].path,
                 service |-> ing.rules[i].paths[j].service]]
        ELSE <<>>])

\* unnamed mapper ServiceProcessor: the body of the loop over services.Items
ServiceProcessorSeq_item(ns, svc) ==
    LET svcResource == Resource(ResourceTypeService, ns, svc.name)
        pods == IF svc.hasSelector
                THEN ListPodsSelected(ns, FormatLabelSelector(svc.selector))
                ELSE [err |-> FALSE, items |-> <<>>]
        podRes == PodResources(ns, pods.items)
        podRels == [i \in 1..Len(podRes) |->
                      Relationship(svcResource, podRes[i], RelationshipTypeTargets,
                                   "exposes port " \o IntString(svc.ports[1].port))]
        ings == List(ResourceTypeIngress, ns)
        ingRels == ConcatAll([i \in 1..Len(ings.items) |->
            LET hits == SelectSeq(IngressPaths(ings.items[i]),
                                  LAMBDA p : p.service = svc.name)
            IN  [j \in 1..Len(hits) |->
                    Relationship(Resource(ResourceTypeIngress, ns, ings.items[i].name),
                                 svcResource, RelationshipTypeExposes,
                                 "exposes via " \o hits[j].host \o hits[j].path)]])
    IN  IF pods.err
        THEN ProcessorResult(Nil, <<svcResource>>, <<>>)             \* continue
        ELSE IF ings.err
        THEN ProcessorResult(Nil, <<svcResource>>, podRels)          \* continue
        ELSE ProcessorResult(Nil, <<svcResource>>, podRels \o ingRels)

\* unnamed mapper ServiceProcessor.Process(ctx, namespace)
ServiceProcessorSeq_Process(ns) ==
    LET services == List(ResourceTypeService, ns)
        parts == [i \in 1..Len(services.items) |->
                    ServiceProcessorSeq_item(ns, services.items[i])]
    IN  IF services.err
        THEN ProcessorResult(<<"failed to list services">>, <<>>, <<>>)
        ELSE ProcessorResult(Nil,
                 ConcatAll([i \in 1..Len(parts) |-> parts[i].resources]),
                 ConcatAll([i \in 1..Len(parts) |-> parts[i].relations]))

\* some path of ing, in a rule with an HTTP section, has a backend without a
\* service reference: path.Backend.Service is nil
HasPathWithoutService(ing) ==
    \E k \in 1..Len(IngressPaths(ing)) : IngressPaths(ing)[k].service = NoService

\* unnamed mapper ServiceProcessor.Process reads path.Backend.Service.Name of every
\* path of every Ingress it lists, for each Service whose pods it could list: on
\* a path without a service reference this is a nil pointer dereference and the
\* program panics
ServiceProcessorSeq_panics(ns) ==
    /\ ~List(ResourceTypeService, ns).err
    /\ \E i \in 1..Len(List(ResourceTypeService, ns).items) :
          LET svc == List(ResourceTypeService, ns).items[i]
          IN  svc.hasSelector =>
                  ~ListPodsSelected(ns, FormatLabelSelector(svc.selector)).err
    /\ ~List(ResourceTypeIngress, ns).err
    /\ \E i \in 1..Len(List(ResourceTypeIngress, ns).items) :
          HasPathWithoutService(List(ResourceTypeIngress, ns).items[i])

\* the three usage modes of a ConfigMap, and the orders a Go map can be ranged in
UsageModes == {"volume", "environment", "environment variable"}
MapOrders ==
    {o \in [1..3 -> UsageModes] : \A m \in UsageModes : \E i \in 1..3 : o[i] = m}

\* the usageTypes map of findConfigMapUsage / findConfigMapUsageInPodTemplate
usageTypes(spec, configMapName) ==
    (IF configMapName \in spec.volumes THEN {"volume"} ELSE {})
      \cup (IF configMapName \in spec.envFrom THEN {"environment"} ELSE {})
      \cup (IF configMapName \in spec.env THEN {"environment variable"} ELSE {})

\* unnamed mapper ConfigMapProcessor.findConfigMapUsage(InPodTemplate): the keys
\* of the map joined in the order the range statement yields them
findConfigMapUsage(spec, configMapName, order) ==
    JoinStrings(SelectSeq(order, LAMBDA m : m \in usageTypes(spec, configMapName)), ", ")

\* unnamed mapper ConfigMapProcessor: the body of the loop over configmaps.Items
ConfigMapProcessorSeq_item(ns, cm, order) ==
    LET cmResource == Resource(ResourceTypeConfigMap, ns, cm.name)
        pods == List(ResourceTypePod, ns)
        users == SelectSeq(pods.items, LAMBDA p : usageTypes(p.spec, cm.name) # {})
        podRels == [i \in 1..Len(users) |->
                      Relationship(Resource(ResourceTypePod, ns, users[i].name),
                          cmResource, RelationshipTypeUses,
                          "uses as " \o findConfigMapUsage(users[i].spec, cm.name, order))]
        deployments == List(ResourceTypeDeployment, ns)
        dusers == SelectSeq(deployments.items,
                            LAMBDA d : usageTypes(d.template, cm.name) # {})
        deployRels == [i \in 1..Len(dusers) |->
                      Relationship(Resource(ResourceTypeDeployment, ns, dusers[i].name),
                          cmResource, RelationshipTypeUses,
                          "uses as " \o findConfigMapUsage(dusers[i].template, cm.name, order))]
    IN  IF pods.err
        THEN ProcessorResult(Nil, <<cmResource>>, <<>>)              \* continue
        ELSE IF deployments.err
        THEN ProcessorResult(Nil, <<cmResource>>, podRels)           \* continue
        ELSE ProcessorResult(Nil, <<cmResource>>, podRels \o deployRels)

\* unnamed mapper ConfigMapProcessor.Process(ctx, namespace)
ConfigMapProcessorSeq_Process(ns, order) ==
    LET configmaps == List(ResourceTypeConfigMap, ns)
        parts == [i \in 1..Len(configmaps.items) |->
                    ConfigMapProcessorSeq_item(ns, configmaps.items[i], order)]
    IN  IF configmaps.err
        THEN ProcessorResult(<<"failed to list configmaps">>, <<>>, <<>>)
        ELSE ProcessorResult(Nil,
                 ConcatAll([i \in 1..Len(parts) |-> parts[i].resources]),
                 ConcatAll([i \in 1..Len(parts) |-> parts[i].relations]))

\* ------------------------------------------------------------------------
\* deployment-processor.go: IngressProcessor (one Ingress is processed
\* sequentially: TLS secrets, backend services, ingress class)
\* ------------------------------------------------------------------------
Added(resources, relations) == [resources |-> resources, relations |-> relations]
NoneAdded == Added(<<>>, <<>>)
AddedConcat(a, b) == Added(a.resources \o b.resources, a.relations \o b.relations)

RECURSIVE AddedAll(_)
AddedAll(ss) == IF ss = <<>> THEN NoneAdded ELSE AddedConcat(Head(ss), AddedAll(Tail(ss)))

\* processTLSSecret with the error of Get not looked at: the secret named by the
\* entry is added whether it was found or not
processTLSSecret_unchecked(ns, tls, ingResource) ==
    LET secretResource == Resource(ResourceTypeSecret, ns, tls.secretName)
    IN  IF tls.secretName = "" THEN NoneAdded
        ELSE Added(<<secretResource>>,
                   <<Relationship(ingResource, secretResource, RelationshipTypeUses,
                        "uses for TLS: " \o JoinStrings(tls.hosts, ", "))>>)

\* IngressProcessor.processTLSSecrets: one entry of ing.Spec.TLS
processTLSSecret(ns, tls, ingResource) ==
    LET secret == Get(ResourceTypeSecret, ns, tls.secretName)
        secretResource == Resource(ResourceTypeSecret, ns, secret.item.name)
    IN  IF tls.secretName = "" THEN NoneAdded
        ELSE IF secret.err THEN NoneAdded              \* Skip if secret not found
        ELSE Added(<<secretResource>>,
                   <<Relationship(ingResource, secretResource, RelationshipTypeUses,
                        "uses for TLS: " \o JoinStrings(tls.hosts, ", "))>>)

\* IngressProcessor.processTLSSecrets
processTLSSecrets(ns, ing, ingResource) ==
    AddedAll([i \in 1..Len(ing.tls) |-> processTLSSecret(ns, ing.tls[i], ingResource)])

\* IngressProcessor.processService: one backend service
processService(ns, backendName, ingResource, description) ==
    LET svc == Get(ResourceTypeService, ns, backendName)
        svcResource == Resource(ResourceTypeService, ns, svc.item.name)
    IN  IF svc.err THEN NoneAdded                      \* Skip if service not found
        ELSE Added(<<svcResource>>,
                   <<Relationship(ingResource, svcResource, RelationshipTypeExposes,
                                  description)>>)

\* IngressProcessor.processBackendServices: the loop over rules and paths, with
\* the processedServices map carried along
RECURSIVE processPaths(_, _, _, _)
processPaths(ns, paths, processedServices, ingResource) ==
    IF paths = <<>> THEN NoneAdded
    ELSE LET p == Head(paths)
         IN  IF p.service = NoService \/ p.service \in processedServices
             THEN processPaths(ns, Tail(paths), processedServices, ingResource)
             ELSE AddedConcat(
                    processService(ns, p.service, ingResource,
                        "host: " \o p.host \o ", path: " \o p.path),
                    processPaths(ns, Tail(paths), processedServices \cup {p.service},
                                 ingResource))

\* IngressProcessor.processBackendServices
processBackendServices(ns, ing, ingResource) ==
    IF ing.defaultBackend # NoService
    THEN AddedConcat(
            processService(ns, ing.defaultBackend, ingResource, "default backend"),
            processPaths(ns, IngressPaths(ing), {ing.defaultBackend}, ingResource))
    ELSE processPaths(ns, IngressPaths(ing), {}, ingResource)

\* IngressProcessor.processIngressClass
processIngressClass(ing, ingResource) ==
    LET ingressClass == Get(ResourceTypeIngressClass, "", ing.className)
        classResource == Resource(ResourceTypeIngressClass, "", ingressClass.item.name)
    IN  IF ing.className = "" THEN NoneAdded
        ELSE IF ingressClass.err THEN NoneAdded        \* Skip if ingress class not found
        ELSE Added(<<classResource>>,
                   <<Relationship(ingResource, classResource, RelationshipTypeUses,
                                  "uses ingress class")>>)

IngressResource(ns, ing) == Resource(ResourceTypeIngress, ns, ing.name)

\* IngressProcessor.processIngress; none of its three steps returns an error
processIngress(ns, ing) ==
    AddedAll(<< Added(<<IngressResource(ns, ing)>>, <<>>),
                processTLSSecrets(ns, ing, IngressResource(ns, ing)),
                processBackendServices(ns, ing, IngressResource(ns, ing)),
                processIngressClass(ing, IngressResource(ns, ing)) >>)

\* IngressProcessor.Process, the items taken in list order
IngressProcessor_Process(ns) ==
    LET ings == List(ResourceTypeIngress, ns)
        all == AddedAll([i \in 1..Len(ings.items) |-> processIngress(ns, ings.items[i])])
    IN  IF ings.err
        THEN ProcessorResult(<<"failed to list Ingresses">>, <<>>, <<>>)
        ELSE ProcessorResult(Nil, all.resources, all.relations)

\* ------------------------------------------------------------------------
\* deployment-processor.go: DeploymentProcessor, the three subtasks of
\* processDeployment.  A subtask returns its error (Nil: none) and what it
\* added to p.resources and p.relations.
\* ------------------------------------------------------------------------
SubResult(err, added) == [err |-> err, added |-> added]

\* the orders in which a range over a Go map with the keys S can run
Perms(S) ==
    {s \in [1..Cardinality(S) -> S] : \A i, j \in 1..Cardinality(S) : s[i] = s[j] => i = j}

DeploymentResource(ns, deploy) == Resource(ResourceTypeDeployment, ns, deploy.name)

\* DeploymentProcessor.processPods
DeploymentProcessor_processPods(ns, deploy, deployResource) ==
    LET pods == ListPods(ns, deploy.selector)
        podRes == PodResources(ns, pods.items)
    IN  IF pods.err THEN SubResult(<<"failed to list pods">>, NoneAdded)
        ELSE SubResult(Nil,
                 Added(podRes,
                       [i \in 1..Len(podRes) |->
                          Relationship(deployResource, podRes[i], RelationshipTypeOwns,
                                       "manages pod")]))

\* a processHPA that matches the scale target by name alone
DeploymentProcessor_processHPA_anyKind(ns, deploy, deployResource) ==
    LET hpas == List(ResourceTypeHPA, ns)
        mine == SelectSeq(hpas.items, LAMBDA h : h.targetName = deploy.name)
        hpaRes == [i \in 1..Len(mine) |-> Resource(ResourceTypeHPA, ns, mine[i].name)]
    IN  IF hpas.err THEN SubResult(<<"failed to list HPAs">>, NoneAdded)
        ELSE SubResult(Nil,
                 Added(hpaRes,
                       [i \in 1..Len(mine) |->
                          Relationship(hpaRes[i], deployResource, RelationshipTypeTargets,
                              "scales " \o IntString(mine[i].minReplicas) \o "-"
                                        \o IntString(mine[i].maxReplicas) \o " replicas")]))

\* DeploymentProcessor.processHPA
DeploymentProcessor_processHPA(ns, deploy, deployResource) ==
    LET hpas == List(ResourceTypeHPA, ns)
        mine == SelectSeq(hpas.items, LAMBDA h : h.targetKind = "Deployment" /\ h.targetName = deploy.name)
        hpaRes == [i \in 1..Len(mine) |-> Resource(ResourceTypeHPA, ns, mine[i].name)]
    IN  IF hpas.err THEN SubResult(<<"failed to list HPAs">>, NoneAdded)
        ELSE SubResult(Nil,
                 Added(hpaRes,
                       [i \in 1..Len(mine) |->
                          Relationship(hpaRes[i], deployResource, RelationshipTypeTargets,
                              "scales " \o IntString(mine[i].minReplicas) \o "-"
                                        \o IntString(mine[i].maxReplicas) \o " replicas")]))

\* DeploymentProcessor.processConfigMaps: the keys of the configMaps map
configMapNames(deploy) ==
    deploy.template.volumes \cup deploy.template.envFrom \cup deploy.template.env

\* DeploymentProcessor.processConfigMaps: one name of the map
DeploymentProcessor_processConfigMap(ns, cmName, deployResource) ==
    LET cm == Get(ResourceTypeConfigMap, ns, cmName)
        cmResource == Resource(ResourceTypeConfigMap, ns, cm.item.name)
    IN  IF cm.err THEN NoneAdded                       \* Skip if ConfigMap not found
        ELSE Added(<<cmResource>>,
                   <<Relationship(deployResource, cmResource, RelationshipTypeUses,
                                  "uses config")>>)

\* DeploymentProcessor.processConfigMaps, the map ranged over in the given order
DeploymentProcessor_processConfigMaps(ns, deploy, deployResource, order) ==
    SubResult(Nil,
        AddedAll([i \in 1..Len(order) |->
                    DeploymentProcessor_processConfigMap(ns, order[i], deployResource)]))

\* the subtasks processDeployment starts, in start order
DeploymentSubtasks == <<"pods", "hpa", "configmaps">>

DeploymentProcessor_subtask(t, ns, deploy, order) ==
    CASE t = "pods" ->
           DeploymentProcessor_processPods(ns, deploy, DeploymentResource(ns, deploy))
      [] t = "hpa" ->
           DeploymentProcessor_processHPA(ns, deploy, DeploymentResource(ns, deploy))
      [] t = "configmaps" ->
           DeploymentProcessor_processConfigMaps(ns, deploy,
               DeploymentResource(ns, deploy), order)

\* ------------------------------------------------------------------------
\* service-processor.go: ServiceProcessor, the three subtasks of processService
\* ------------------------------------------------------------------------
\* getServiceStatus, for the Service types of the cluster: ClusterIP, and a type
\* the switch has no case for; Details is the sequence of the parts it was built from
getServiceStatus(svc) ==
    [Phase |-> "Active", Ready |-> TRUE,
     Details |-> IF svc.type = "ClusterIP" THEN <<"ClusterIP: " \o svc.clusterIP>>
                 ELSE <<>>]

\* processService: svcResource, the value handed to addResource and to the subtasks
ServiceResource(ns, svc) ==
    [Type |-> ResourceTypeService, Namespace |-> ns, Name |-> svc.name,
     Status |-> getServiceStatus(svc)]

\* one element of formatPorts: "%d->%d/%s" (the source prints an arrow character)
formatPort(port) ==
    IntString(port.port) \o "->" \o IntString(port.targetPort) \o "/" \o port.protocol

formatPorts(ports) == JoinStrings([i \in 1..Len(ports) |-> formatPort(ports[i])], ", ")

\* ServiceProcessor.processPods
ServiceProcessor_processPods(ns, svc, svcResource) ==
    LET pods == ListPodsSelected(ns, FormatLabelSelector(svc.selector))
        podRes == PodResources(ns, pods.items)
    IN  IF ~svc.hasSelector THEN SubResult(Nil, NoneAdded)
        ELSE IF pods.err THEN SubResult(<<"failed to list pods">>, NoneAdded)
        ELSE SubResult(Nil,
                 Added(podRes,
                       [i \in 1..Len(podRes) |->
                          Relationship(svcResource, podRes[i], RelationshipTypeTargets,
                              "routes traffic to pod: " \o formatPorts(svc.ports))]))

\* processEndpoints: activeEndpoints, the sum of len(subset.Addresses)
RECURSIVE activeEndpoints(_)
activeEndpoints(addresses) ==
    IF addresses = <<>> THEN 0 ELSE Head(addresses) + activeEndpoints(Tail(addresses))

\* ServiceProcessor.processEndpoints: its parameter svcResource when it returns;
\* svcResource is passed by value, this is the function's own copy
ServiceProcessor_processEndpoints_local(ns, svc, svcResource) ==
    LET endpoints == Get("Endpoints", ns, svc.name)
    IN  IF endpoints.err THEN svcResource
        ELSE [svcResource EXCEPT !.Status.Details =
                 @ \o <<", Endpoints: "
                         \o IntString(activeEndpoints(endpoints.item.addresses))
                         \o " active">>]

\* ServiceProcessor.processEndpoints: the detail is appended to the function's own
\* copy of svcResource, so nothing is added and nothing stored changes
ServiceProcessor_processEndpoints(ns, svc, svcResource) == SubResult(Nil, NoneAdded)

isServiceReferencedByIngress(ing, serviceName) ==
    \E i \in 1..Len(IngressPaths(ing)) : IngressPaths(ing)[i].service = serviceName

formatIngressPaths(ing, serviceName) ==
    LET mine == SelectSeq(IngressPaths(ing), LAMBDA p : p.service = serviceName)
    IN  JoinStrings([i \in 1..Len(mine) |-> mine[i].host \o mine[i].path], ", ")

\* ServiceProcessor.processIngresses
ServiceProcessor_processIngresses(ns, svc, svcResource) ==
    LET ings == List(ResourceTypeIngress, ns)
        mine == SelectSeq(ings.items, LAMBDA g : isServiceReferencedByIngress(g, svc.name))
        ingRes == [i \in 1..Len(mine) |-> IngressResource(ns, mine[i])]
    IN  IF ings.err THEN SubResult(<<"failed to list ingresses">>, NoneAdded)
        ELSE SubResult(Nil,
                 Added(ingRes,
                       [i \in 1..Len(mine) |->
                          Relationship(ingRes[i], svcResource, RelationshipTypeExposes,
                              "exposes via " \o formatIngressPaths(mine[i], svc.name))]))

ServiceSubtasks == <<"pods", "endpoints", "ingresses">>

ServiceProcessor_subtask(t, ns, svc) ==
    CASE t = "pods" -> ServiceProcessor_processPods(ns, svc, ServiceResource(ns, svc))
      [] t = "endpoints" ->
           ServiceProcessor_processEndpoints(ns, svc, ServiceResource(ns, svc))
      [] t = "ingresses" ->
           ServiceProcessor_processIngresses(ns, svc, ServiceResource(ns, svc))


\* ------------------------------------------------------------------------
\* config/config.go: ConfigMapProcessor, the subtasks of processConfigMap
\* ------------------------------------------------------------------------
ConfigMapResource(ns, cm) == Resource(ResourceTypeConfigMap, ns, cm.name)

\* sort.Strings over the keys a usageTypes map can hold: byte order puts
\* "environment" before its extension "environment variable", and both before "volume"
SortedUsageModes == <<"environment", "environment variable", "volume">>

\* mapKeysToSlice: the keys of the map, sorted
mapKeysToSlice(m) == SelectSeq(SortedUsageModes, LAMBDA k : k \in m)

\* ConfigMapProcessor.findConfigMapUsageInPod / findConfigMapUsageInPodTemplate
findConfigMapUsageInPodTemplate(template, configMapName) ==
    mapKeysToSlice(usageTypes(template, configMapName))

\* the Description of the edges of processPodUsage / processDeploymentUsage
UsesAs(usage) == "uses as " \o JoinStrings(usage, ", ")

\* ConfigMapProcessor.processPodUsage
ConfigMapProcessor_processPodUsage(ns, cm, cmResource) ==
    LET pods == List(ResourceTypePod, ns)
        users == SelectSeq(pods.items,
                     LAMBDA p : Len(findConfigMapUsageInPodTemplate(p.spec, cm.name)) > 0)
        podRes == PodResources(ns, users)
    IN  IF pods.err THEN SubResult(<<"failed to list pods">>, NoneAdded)
        ELSE SubResult(Nil,
                 Added(podRes,
                       [i \in 1..Len(users) |->
                          Relationship(podRes[i], cmResource, RelationshipTypeUses,
                              UsesAs(findConfigMapUsageInPodTemplate(users[i].spec,
                                                                     cm.name)))]))

\* ConfigMapProcessor.processDeploymentUsage
ConfigMapProcessor_processDeploymentUsage(ns, cm, cmResource) ==
    LET deployments == List(ResourceTypeDeployment, ns)
        users == SelectSeq(deployments.items,
                     LAMBDA d : Len(findConfigMapUsageInPodTemplate(d.template, cm.name)) > 0)
    IN  IF deployments.err THEN SubResult(<<"failed to list deployments">>, NoneAdded)
        ELSE SubResult(Nil,
                 Added([i \in 1..Len(users) |-> DeploymentResource(ns, users[i])],
                       [i \in 1..Len(users) |->
                          Relationship(DeploymentResource(ns, users[i]), cmResource,
                              RelationshipTypeUses,
                              UsesAs(findConfigMapUsageInPodTemplate(users[i].template,
                                                                     cm.name)))]))

\* the subtasks processConfigMap starts, in start order; processStatefulSetUsage
\* is not among them: visualOpts.ShowExtendedResources is left off
ConfigMapSubtasks == <<"podUsage", "deploymentUsage">>

ConfigMapProcessor_subtask(t, ns, cm) ==
    CASE t = "podUsage" ->
           ConfigMapProcessor_processPodUsage(ns, cm, ConfigMapResource(ns, cm))
      [] t = "deploymentUsage" ->
           ConfigMapProcessor_processDeploymentUsage(ns, cm, ConfigMapResource(ns, cm))
\* ------------------------------------------------------------------------
\* visualizer.go: the layered renderer.  The output is kept as its structure:
\* the four layers in print order, each with its resources in print order and
\* under each resource its relationship lines in print order.
\* ------------------------------------------------------------------------
filterResourcesByType(mapping, resourceType) ==
    SelectSeq(mapping.Resources, LAMBDA r : r.Type = resourceType)

findRelationships(mapping, source, relType) ==
    SelectSeq(mapping.Relationships,
        LAMBDA r : r.Source.Name = source.Name /\ r.Source.Type = source.Type
                   /\ r.Type = relType)

findRelationshipsForTarget(mapping, target, relType) ==
    SelectSeq(mapping.Relationships,
        LAMBDA r : r.Target.Name = target.Name /\ r.Target.Type = target.Type
                   /\ r.Type = relType)

Entry(resource, isLast, lines) ==
    [resource |-> resource, isLast |-> isLast, lines |-> lines]

renderIngressLayer(mapping) ==
    LET rs == filterResourcesByType(mapping, ResourceTypeIngress)
    IN  [header |-> "[Ingress Layer]",
         entries |-> [i \in 1..Len(rs) |->
             Entry(rs[i], i = Len(rs),
                   findRelationships(mapping, rs[i], RelationshipTypeExposes))]]

renderServiceLayer(mapping) ==
    LET rs == filterResourcesByType(mapping, ResourceTypeService)
    IN  [header |-> "[Service Layer]",
         entries |-> [i \in 1..Len(rs) |->
             Entry(rs[i], i = Len(rs),
                   findRelationships(mapping, rs[i], RelationshipTypeTargets))]]

renderWorkloadLayer(mapping) ==
    LET rs == filterResourcesByType(mapping, ResourceTypeDeployment)
    IN  [header |-> "[Workload Layer]",
         entries |-> [i \in 1..Len(rs) |->
             Entry(rs[i], i = Len(rs),
                   SelectSeq(findRelationships(mapping, rs[i], RelationshipTypeTargets),
                             LAMBDA r : r.Source.Type = ResourceTypeHPA)
                   \o findRelationships(mapping, rs[i], RelationshipTypeOwns))]]

renderStorageLayer(mapping) ==
    LET rs == filterResourcesByType(mapping, ResourceTypeConfigMap)
    IN  [header |-> "[Storage Layer]",
         entries |-> [i \in 1..Len(rs) |->
             Entry(rs[i], i = Len(rs),
                   findRelationshipsForTarget(mapping, rs[i], RelationshipTypeUses))]]

RenderClusterView(mapping) ==
    << renderIngressLayer(mapping), renderServiceLayer(mapping),
       renderWorkloadLayer(mapping), renderStorageLayer(mapping) >>


\* NewVisualizer
NewVisualizer(mapping) ==
    [resourceMapping |-> mapping, showDetails |-> TRUE, colorOutput |-> TRUE]

\* A printed string is kept as the sequence of its tokens: a colour code, a glyph
\* or a run of text each are one token.
\* the ANSI colour codes the renderer uses
ColorRed == "ESC[0;31m"
ColorGreen == "ESC[0;32m"
ColorYellow == "ESC[1;33m"
ColorBlue == "ESC[0;34m"
ColorMagenta == "ESC[0;35m"
ColorCyan == "ESC[0;36m"
ColorGray == "ESC[0;37m"
ColorBoldRed == "ESC[1;31m"
ColorBoldGreen == "ESC[1;32m"
ColorBoldBlue == "ESC[1;34m"
ColorReset == "ESC[0m"

ColorCodes == {ColorRed, ColorGreen, ColorYellow, ColorBlue, ColorMagenta, ColorCyan,
               ColorGray, ColorBoldRed, ColorBoldGreen, ColorBoldBlue, ColorReset}

\* GetResourceColor over ResourceColors
GetResourceColor(resourceType) ==
    CASE resourceType = ResourceTypeNamespace -> ColorCyan
      [] resourceType = ResourceTypePod -> ColorGreen
      [] resourceType = ResourceTypeService -> ColorBlue
      [] resourceType = ResourceTypeIngress -> ColorMagenta
      [] resourceType = ResourceTypeConfigMap -> ColorYellow
      [] resourceType = ResourceTypeDeployment -> ColorBoldBlue
      [] resourceType = ResourceTypeHPA -> ColorBoldGreen
      [] resourceType = ResourceTypeSecret -> ColorBoldRed
      [] OTHER -> ColorGray

\* stripColorCodes: every ANSI escape sequence is removed
stripColorCodes(s) == SelectSeq(s, LAMBDA t : t \notin ColorCodes)

\* Colorize
Colorize(color, text) == <<color>> \o text \o <<ColorReset>>

\* Sprintf: the colour codes are stripped from the format when the package
\* variable DisableColors is set
Sprintf(format, disableColors) ==
    IF disableColors THEN stripColorCodes(format) ELSE format

\* ColorizedPrintf: Sprintf of color + format + ColorReset
ColorizedPrintf(color, text, disableColors) ==
    Sprintf(<<color>> \o text \o <<ColorReset>>, disableColors)

\* Visualizer.colorize: the option of this Visualizer decides
colorize(v, color, text) == IF ~v.colorOutput THEN text ELSE Colorize(color, text)

\* utils.GetCurrentTime() at clock reading t
GetCurrentTime(t) == "t" \o IntString(t)

\* Visualizer.renderHeader, called at clock reading t
renderHeader(t, disableColors) ==
    << ColorizedPrintf(ColorGreen, <<"Kubernetes Resource Map">>, disableColors),
       <<"--------">>,
       ColorizedPrintf(ColorGray, <<"Generated at: " \o GetCurrentTime(t)>>,
                       disableColors) >>

\* the glyphs (visualizer.go: const), in ASCII
verticalLine == "|"
horizontalLine == "--"
cornerSymbol == "L"
branchSymbol == "+"
arrowSymbol == "->"
dotSymbol == "*"
warningSymbol == "!"
successSymbol == "v"
errorSymbol == "x"
detailsSymbol == "i"
cycleSymbol == "@"

\* getPrefix, getIndent
getPrefix(isLast) ==
    IF isLast THEN <<cornerSymbol, horizontalLine, " ">>
    ELSE <<branchSymbol, horizontalLine, " ">>

getIndent(isLast) == IF isLast THEN <<"    ">> ELSE <<verticalLine, "   ">>

\* formatResource
formatResource(r, disableColors) ==
    ColorizedPrintf(GetResourceColor(r.Type), <<r.Type \o "/" \o r.Name>>, disableColors)

\* resource.Data.(T): the type assertion holds for a Data of exactly the Go type T
DataIs(r, goType) == "Data" \in DOMAIN r /\ r.Data.goType = goType

\* getDeploymentStatusSymbol
getDeploymentStatusSymbol(v, ready, desired) ==
    IF ready = desired THEN colorize(v, ColorGreen, <<successSymbol>>)
    ELSE IF ready > 0 THEN colorize(v, ColorYellow, <<warningSymbol>>)
    ELSE colorize(v, ColorRed, <<errorSymbol>>)

\* getPodStatusSymbol
getPodStatusSymbol(v, phase) ==
    IF phase = "Running" THEN colorize(v, ColorGreen, <<successSymbol>>)
    ELSE IF phase = "Pending" THEN colorize(v, ColorYellow, <<warningSymbol>>)
    ELSE colorize(v, ColorRed, <<errorSymbol>>)

\* what a layer prints: its header line and per resource the line of the resource,
\* its detail lines and its relationship lines
LayerText(header, entries) == [header |-> header, entries |-> entries]
EntryText(line, details, rels) == [line |-> line, details |-> details, rels |-> rels]

\* one resource line: prefix, coloured dot, the resource
resourceLine(v, color, r, isLast, disableColors) ==
    getPrefix(isLast) \o colorize(v, color, <<dotSymbol>>) \o <<" ">>
        \o formatResource(r, disableColors)

renderIngressLayerText(v, disableColors) ==
    LET rs == filterResourcesByType(v.resourceMapping, ResourceTypeIngress)
    IN  LayerText(ColorizedPrintf(ColorBlue, <<"[Ingress Layer]">>, disableColors),
          [i \in 1..Len(rs) |->
            LET isLast == i = Len(rs)
                rels == findRelationships(v.resourceMapping, rs[i], RelationshipTypeExposes)
            IN  EntryText(
                  resourceLine(v, ColorMagenta, rs[i], isLast, disableColors),
                  IF DataIs(rs[i], "networkingv1.Ingress") /\ rs[i].Data.tls > 0
                      THEN << getIndent(isLast) \o <<"  ">>
                              \o colorize(v, ColorGreen, <<successSymbol>>)
                              \o <<" TLS Enabled">> >>
                      ELSE <<>>,
                  [j \in 1..Len(rels) |->
                      getIndent(isLast /\ j = Len(rels)) \o <<"  ">>
                      \o colorize(v, ColorBlue, <<arrowSymbol>>) \o <<" ">>
                      \o formatResource(rels[j].Target, disableColors)
                      \o <<" via " \o rels[j].Description>>])])

\* one backend pod of a Service: its line and, for a Data that is a Pod, its phase
servicePodLines(v, rel, isLastRel, disableColors) ==
    << getIndent(isLastRel) \o <<"  ">> \o colorize(v, ColorGreen, <<arrowSymbol>>)
       \o <<" ">> \o formatResource(rel.Target, disableColors) >>
    \o IF DataIs(rel.Target, "corev1.Pod")
           THEN << getIndent(isLastRel) \o <<"     ">>
                   \o getPodStatusSymbol(v, rel.Target.Data.phase)
                   \o <<" ", rel.Target.Data.phase>> >>
           ELSE <<>>

renderServiceLayerText(v, disableColors) ==
    LET rs == filterResourcesByType(v.resourceMapping, ResourceTypeService)
    IN  LayerText(ColorizedPrintf(ColorBlue, <<"[Service Layer]">>, disableColors),
          [i \in 1..Len(rs) |->
            LET isLast == i = Len(rs)
                rels == findRelationships(v.resourceMapping, rs[i], RelationshipTypeTargets)
            IN  EntryText(
                  resourceLine(v, ColorBlue, rs[i], isLast, disableColors),
                  IF v.showDetails /\ DataIs(rs[i], "corev1.Service")
                      THEN << getIndent(isLast) \o <<"  ">>
                              \o colorize(v, ColorGray, <<detailsSymbol>>)
                              \o <<" Type: " \o rs[i].Data.type>>,
                              getIndent(isLast) \o <<"  ">>
                              \o colorize(v, ColorGray, <<detailsSymbol>>)
                              \o <<" Ports: " \o rs[i].Data.ports>> >>
                      ELSE <<>>,
                  ConcatAll([j \in 1..Len(rels) |->
                      servicePodLines(v, rels[j], isLast /\ j = Len(rels),
                                      disableColors)]))])

renderWorkloadLayerText(v, disableColors) ==
    LET rs == filterResourcesByType(v.resourceMapping, ResourceTypeDeployment)
    IN  LayerText(ColorizedPrintf(ColorBlue, <<"[Workload Layer]">>, disableColors),
          [i \in 1..Len(rs) |->
            LET isLast == i = Len(rs)
                hpaRels == SelectSeq(
                    findRelationships(v.resourceMapping, rs[i], RelationshipTypeTargets),
                    LAMBDA r : r.Source.Type = ResourceTypeHPA)
                podRels == findRelationships(v.resourceMapping, rs[i], RelationshipTypeOwns)
            IN  EntryText(
                  resourceLine(v, ColorYellow, rs[i], isLast, disableColors),
                  IF v.showDetails /\ DataIs(rs[i], "appsv1.Deployment")
                      THEN << getIndent(isLast) \o <<"  ">>
                              \o getDeploymentStatusSymbol(v, rs[i].Data.ready,
                                                           rs[i].Data.replicas)
                              \o <<" ", IntString(rs[i].Data.ready) \o "/"
                                        \o IntString(rs[i].Data.replicas)
                                        \o " replicas ready">> >>
                      ELSE <<>>,
                  [j \in 1..Len(hpaRels) |->
                      getIndent(isLast) \o <<"  ">>
                      \o colorize(v, ColorCyan, <<cycleSymbol>>)
                      \o <<" ", hpaRels[j].Description>>]
                  \o [j \in 1..Len(podRels) |->
                      getIndent(isLast /\ j = Len(podRels)) \o <<"  ">>
                      \o colorize(v, ColorGreen, <<arrowSymbol>>) \o <<" ">>
                      \o formatResource(podRels[j].Target, disableColors)])])

renderStorageLayerText(v, disableColors) ==
    LET rs == filterResourcesByType(v.resourceMapping, ResourceTypeConfigMap)
    IN  LayerText(ColorizedPrintf(ColorBlue, <<"[Storage Layer]">>, disableColors),
          [i \in 1..Len(rs) |->
            LET isLast == i = Len(rs)
                rels == findRelationshipsForTarget(v.resourceMapping, rs[i],
                                                   RelationshipTypeUses)
            IN  EntryText(
                  resourceLine(v, ColorYellow, rs[i], isLast, disableColors),
                  <<>>,
                  [j \in 1..Len(rels) |->
                      getIndent(isLast /\ j = Len(rels)) \o <<"  ">>
                      \o colorize(v, ColorBlue, <<arrowSymbol>>) \o <<" Used by ">>
                      \o formatResource(rels[j].Source, disableColors)
                      \o <<" (" \o rels[j].Description \o ")">>])])

\* Visualizer.RenderClusterView called at clock reading t: the header, the layers
\* in print order (text: what each prints; layers: the resources and relationships
\* behind the lines), and the bullet every Ingress line starts with
Visualizer_RenderClusterView(v, t, disableColors) ==
    [header |-> renderHeader(t, disableColors),
     text |-> << renderIngressLayerText(v, disableColors),
                 renderServiceLayerText(v, disableColors),
                 renderWorkloadLayerText(v, disableColors),
                 renderStorageLayerText(v, disableColors) >>,
     layerHeaders |-> [k \in 1..4 |->
          ColorizedPrintf(ColorBlue, <<RenderClusterView(v.resourceMapping)[k].header>>,
                          disableColors)],
     bullet |-> colorize(v, ColorMagenta, <<dotSymbol>>),
     layers |-> RenderClusterView(v.resourceMapping)]

\* ------------------------------------------------------------------------
\* The Deployment resource with what the renderer reads of it
\* ------------------------------------------------------------------------
\* deployment-processor.go: getDeploymentStatus
getDeploymentStatus(deploy) ==
    [Phase |-> IF deploy.ready = deploy.replicas THEN "Ready"
               ELSE IF deploy.ready > 0 THEN "PartiallyReady"
               ELSE "NotReady",
     Ready |-> deploy.ready = deploy.replicas,
     Details |-> IntString(deploy.ready) \o "/" \o IntString(deploy.replicas)
                 \o " replicas ready"]

\* resources.go, Process: the resource of a Deployment; Data is the Deployment itself
DeploymentProcessorSeq_resource(deploy) ==
    [Type |-> ResourceTypeDeployment, Namespace |-> deploy.namespace, Name |-> deploy.name,
     Data |-> [goType |-> "appsv1.Deployment", ready |-> deploy.ready,
               replicas |-> deploy.replicas]]

\* deployment-processor.go, processDeployment: the resource of a Deployment; Data is
\* a pointer to the Deployment
processDeployment_resource(deploy) ==
    [Type |-> ResourceTypeDeployment, Namespace |-> deploy.namespace, Name |-> deploy.name,
     Data |-> [goType |-> "*appsv1.Deployment", ready |-> deploy.ready,
               replicas |-> deploy.replicas],
     Status |-> getDeploymentStatus(deploy)]

\* ------------------------------------------------------------------------
\* mapper.go: RelationshipProcessor.VisualizeRelationships; formatting.go
\* ------------------------------------------------------------------------
\* formatting.go: TreePrefix, CreateArrow, FormatResource
TreePrefix(isLast) == IF isLast THEN "L--" ELSE "+--"

CreateArrow(length) == JoinStrings([i \in 1..length |-> "-"], "") \o ">"

FormatResource(resourceType, name) ==
    Colorize(GetResourceColor(resourceType), <<resourceType \o ": " \o name>>)

\* the order of the source types in the relationship view
resourceOrder ==
    <<ResourceTypeIngress, ResourceTypeService, ResourceTypeDeployment,
      ResourceTypePod, ResourceTypeConfigMap>>

\* VisualizeRelationships: the lines of one source type; nothing for a type without
\* relationships
relationLayer(relations, resType) ==
    LET group == SelectSeq(relations, LAMBDA r : r.Source.Type = resType)
    IN  IF group = <<>> THEN <<>>
        ELSE << <<"V">>, <<"[" \o resType \o " Layer]">> >>
             \o ConcatAll([i \in 1..Len(group) |->
                  << <<TreePrefix(i = Len(group)), " ">>
                        \o FormatResource(group[i].Source.Type, group[i].Source.Name),
                     <<"|   ", CreateArrow(4), " ">>
                        \o FormatResource(group[i].Target.Type, group[i].Target.Name)
                        \o <<" (" \o group[i].Description \o ")">> >>])

\* VisualizeRelationships: the lines it returns
VisualizeRelationships(relations) ==
    << <<"External Traffic">>, <<"|">> >>
    \o ConcatAll([k \in 1..Len(resourceOrder) |-> relationLayer(relations, resourceOrder[k])])
\* ------------------------------------------------------------------------
\* State of one fan-out processor (deployment-processor.go, service-processor.go)
\* and of ProcessResources (common-processing.go)
\* ------------------------------------------------------------------------
VARIABLES
    proc,         \* the processor that runs: a member of FanKinds
    pns,          \* p.namespace
    ppc,          \* where Process stands: "start", "wait" (wg.Wait), "done"
    items,        \* the items of the primary List
    itemPc,       \* per item goroutine: where it stands
    subDone,      \* per item: the subtask goroutines that returned
    itemErrCh,    \* per item: the errChan of processDeployment / processService
    perrCh,       \* the errChan of Process
    presources,   \* p.resources
    prelations,   \* p.relations
    perr          \* the error Process returned (Nil: none)

fanVars == <<proc, pns, ppc, items, itemPc, subDone, itemErrCh, perrCh,
             presources, prelations, perr>>

VARIABLES
    processors,   \* the processors handed to ProcessResources
    qns,          \* the namespace the processors were created for
    qpc,          \* where ProcessResources stands: "start", "wait", "returned"
    tpc,          \* per task goroutine: where it stands
    tout,         \* per task: what Process, GetResources and GetRelationships gave
    tidx,         \* per task: the index of its range loop over the resources
    tlocal,       \* per task: the value it loaded and has not stored back yet
    resourceSet,  \* the keys of the ResourceSet
    result,       \* *ProcessingResult, shared by the tasks and the caller
    qerrChan,     \* queue.errChan
    qmetrics      \* queue.metrics

queueVars == <<processors, qns, qpc, tpc, tout, tidx, tlocal,
               resourceSet, result, qerrChan, qmetrics>>


\* the renderer (visualizer.go) and the process-wide state it reads
VARIABLES
    viz,            \* the Visualizer: [resourceMapping, showDetails, colorOutput]
    DisableColors,  \* the package variable DisableColors
    now,            \* the reading of the clock
    outputs         \* the calls of RenderClusterView so far and what each returned

renderVars == <<viz, DisableColors, now, outputs>>

\* main of the modular program (README.md) and what it has done
VARIABLES
    flags,          \* what parseFlags returned
    mainPc,         \* where main stands: "idle", "parsed", "mapper", "exited"
    exitCode,       \* the code given to os.Exit (-1: the process has not exited)
    clientCreated   \* whether client.NewK8sClient was called

mainVars == <<flags, mainPc, exitCode, clientCreated>>

\* a ProcessingQueue of its own (common-processing.go): its owner adds tasks and
\* then calls Wait
VARIABLES
    taskCount,      \* the number of AddTask calls the owner makes
    failingTasks,   \* the tasks whose function returns an error
    wgAdded,        \* the tasks added so far (q.wg.Add)
    wgReported,     \* the tasks whose function returned and whose select ran
    wgDone,         \* the tasks that called q.wg.Done
    errChan,        \* q.errChan, the buffered channel
    errChanClosed,  \* whether Wait closed q.errChan
    queueMetrics,        \* q.metrics
    waitPc,         \* where the owner stands: "idle", "adding", "select", "collect", "returned"
    collectorPc,    \* the goroutine ranging over q.errChan: "none", "recv", "send", "closed"
    collectorErr,   \* the error the collector took and has not handed over yet
    errors          \* the list Wait builds and returns

waitVars == <<taskCount, failingTasks, wgAdded, wgReported, wgDone, errChan, errChanClosed,
              queueMetrics, waitPc, collectorPc, collectorErr, errors>>

\* a RelationshipProcessor (mapper.go) and its three sub-processors
VARIABLES
    rpNs,           \* the namespace handed to Process
    rpPc,           \* where Process stands: "idle", "start", "wait", "ingress", "loop", "done", "panic"
    rpOut,          \* per sub-processor goroutine: what proc.Process returned
    rpDone,         \* the sub-processor goroutines that called wg.Done
    rpErrCh,        \* errCh of Process
    rpResources,    \* p.resources
    rpRelations,    \* p.relations
    rpPos,          \* the ingress pass: the index of its loop (0: the pass has not started)
    rpErr           \* the error Process returned (Nil: none)

relVars == <<rpNs, rpPc, rpOut, rpDone, rpErrCh, rpResources, rpRelations, rpPos, rpErr>>


\* a caller of FilterResources (common-filters.go)
VARIABLES
    filterResources,  \* the resources handed to FilterResources
    filter,           \* the ResourceFilter
    filterCalls,      \* how many times the caller has filtered: 0, 1, 2
    filtered,         \* what the first call returned
    refiltered        \* what filtering that result again returned

filterVars == <<filterResources, filter, filterCalls, filtered, refiltered>>

extraVars == <<waitVars, relVars, filterVars>>
\* ------------------------------------------------------------------------
\* mapper.go: ResourceMapper, the coordinator
\* ------------------------------------------------------------------------
VARIABLES
    config,       \* rm.config: [Namespace, ExcludeNs]
    pc,           \* where ResourceMapper.Process stands
    namespaces,   \* the result of getNamespaces
    nsIdx,        \* the index of the range loop over namespaces
    procDone,     \* the processor goroutines of the current namespace that returned
    errCh,        \* the buffered error channel of processNamespace
    rm,           \* rm.resources, the shared ResourceMapping
    stdout,       \* what the run has printed, in order
    processErr    \* the error Process returned (Nil: none)

mapperVars == <<config, pc, namespaces, nsIdx, procDone, errCh, rm, stdout, processErr>>

\* mapper.go processNamespace: the processors, in creation order
Processors == <<"Deployment", "Service", "ConfigMap", "Ingress">>

\* p.Process(rm.ctx, namespace) of the processor created for p
ProcessorProcess(p, ns, order) ==
    CASE p = "Deployment" -> DeploymentProcessorSeq_Process(ns)
      [] p = "Service" -> ServiceProcessorSeq_Process(ns)
      [] p = "ConfigMap" -> ConfigMapProcessorSeq_Process(ns, order)
      [] p = "Ingress" -> IngressProcessor_Process(ns)

\* p.Process(rm.ctx, namespace) does not return: the program panics
ProcessorPanics(p, ns) == p = "Service" /\ ServiceProcessorSeq_panics(ns)

\* an addRelationships that puts the new relationships in front
addRelationships_prepend(mapping, relationships) ==
    [mapping EXCEPT !.Relationships = relationships \o @]

\* ResourceMapper.addRelationships (under rm.mu)
addRelationships(mapping, relationships) ==
    [mapping EXCEPT !.Relationships = @ \o relationships]

\* config.go: StringSliceFlag.Contains
Contains(s, namespace) == \E i \in 1..Len(s) : s[i] = namespace

\* getNamespaces with the exclusion list applied to the explicit namespace too
getNamespaces_excluding(cfg) ==
    IF <<"", ResourceTypeNamespace>> \in failing \/ cancelled
    THEN [err |-> <<"namespaces cannot be listed">>, namespaces |-> <<>>]
    ELSE [err |-> Nil,
          namespaces |-> SelectSeq(NsList,
              LAMBDA n : /\ ~Contains(cfg.ExcludeNs, n)
                         /\ cfg.Namespace \in {"", n})]

\* ResourceMapper.getNamespaces
getNamespaces(cfg) ==
    IF cfg.Namespace # ""
    THEN IF Contains(NsList, cfg.Namespace) /\ ~cancelled
         THEN [err |-> Nil, namespaces |-> <<cfg.Namespace>>]
         ELSE [err |-> <<"namespace " \o cfg.Namespace \o " not found">>,
               namespaces |-> <<>>]
    ELSE IF <<"", ResourceTypeNamespace>> \in failing \/ cancelled
         THEN [err |-> <<"namespaces cannot be listed">>, namespaces |-> <<>>]
         ELSE [err |-> Nil,
               namespaces |-> SelectSeq(NsList, LAMBDA n : ~Contains(cfg.ExcludeNs, n))]

\* the error processNamespace returns once its goroutines are joined: the first
\* error of the channel, wrapped
processNamespaceError(ch) ==
    IF ch = <<>> THEN Nil ELSE <<"processor error">> \o Head(ch)

Warning(ns, err) == [event |-> "warning", namespace |-> ns, err |-> err]
Header(ns) == [event |-> "namespace", namespace |-> ns]
Rendered(output) == [event |-> "render", output |-> output]

\* GetNamespaces with a failed resolution falling back to every namespace
GetNamespaces_fallback ==
    /\ pc = "start"
    /\ namespaces' = IF getNamespaces(config).err # Nil THEN NsList
                     ELSE getNamespaces(config).namespaces
    /\ pc' = "loop"
    /\ UNCHANGED <<config, nsIdx, procDone, errCh, rm, stdout, processErr, clusterVars,
                   renderVars, mainVars, extraVars, fanVars, queueVars>>

\* Process, first statement: getNamespaces; an error ends the run
GetNamespaces ==
    /\ pc = "start"
    /\ LET got == getNamespaces(config)
       IN  IF got.err # Nil
           THEN /\ processErr' = <<"failed to get namespaces">> \o got.err
                /\ pc' = "done"
                /\ UNCHANGED namespaces
           ELSE /\ namespaces' = got.namespaces
                /\ pc' = "loop"
                /\ UNCHANGED processErr
    /\ UNCHANGED <<config, nsIdx, procDone, errCh, rm, stdout, clusterVars, renderVars, mainVars, extraVars, fanVars, queueVars>>

\* processNamespace up to wg.Wait: the header is printed, the processors are
\* created and one goroutine per processor is started
StartNamespace ==
    /\ pc = "loop"
    /\ nsIdx <= Len(namespaces)
    /\ stdout' = Append(stdout, Header(namespaces[nsIdx]))
    /\ procDone' = {}
    /\ errCh' = <<>>
    /\ pc' = "wait"
    /\ UNCHANGED <<config, namespaces, nsIdx, rm, processErr, clusterVars, renderVars, mainVars, extraVars, fanVars, queueVars>>

\* one processor goroutine of processNamespace, from Process to wg.Done; errCh
\* has room for len(processors) errors and a send waits for room; a processor
\* that panics ends the program (ProcessorPanic)
RunProcessor(p) ==
    /\ pc = "wait"
    /\ p \notin procDone
    /\ ~ProcessorPanics(p, namespaces[nsIdx])
    /\ \E order \in (IF p = "ConfigMap" THEN MapOrders
                     ELSE {<<"volume", "environment", "environment variable">>}) :
         LET res == ProcessorProcess(p, namespaces[nsIdx], order)
         IN  IF res.err # Nil
             THEN /\ Len(errCh) < Len(Processors)
                  /\ errCh' = Append(errCh, res.err)
                  /\ UNCHANGED rm
             ELSE /\ rm' = addRelationships(rm, res.relations)
                  /\ UNCHANGED errCh
    /\ procDone' = procDone \cup {p}
    /\ UNCHANGED <<config, pc, namespaces, nsIdx, stdout, processErr, clusterVars, renderVars, mainVars, extraVars, fanVars, queueVars>>

\* a processor goroutine panics inside Process: the program ends
ProcessorPanic(p) ==
    /\ pc = "wait"
    /\ p \notin procDone
    /\ ProcessorPanics(p, namespaces[nsIdx])
    /\ pc' = "panic"
    /\ UNCHANGED <<config, namespaces, nsIdx, procDone, errCh, rm, stdout, processErr,
                   clusterVars, renderVars, mainVars, extraVars, fanVars, queueVars>>

\* JoinNamespace with the loop of Process returning the namespace's error
\* instead of continuing
JoinNamespace_abort ==
    /\ pc = "wait"
    /\ procDone = Range(Processors)
    /\ LET err == processNamespaceError(errCh)
       IN  IF err # Nil
           THEN /\ processErr' = err
                /\ pc' = "done"
                /\ UNCHANGED <<stdout, nsIdx>>
           ELSE /\ nsIdx' = nsIdx + 1
                /\ pc' = "loop"
                /\ UNCHANGED <<stdout, processErr>>
    /\ UNCHANGED <<config, namespaces, procDone, errCh, rm, clusterVars, renderVars, mainVars, extraVars, fanVars, queueVars>>

\* wg.Wait returns, the channel is closed and drained; Process prints the
\* warning of a failed namespace and continues with the next one
JoinNamespace ==
    /\ pc = "wait"
    /\ procDone = Range(Processors)
    /\ LET err == processNamespaceError(errCh)
       IN  stdout' = IF err # Nil
                     THEN Append(stdout, Warning(namespaces[nsIdx], err))
                     ELSE stdout
    /\ nsIdx' = nsIdx + 1
    /\ pc' = "loop"
    /\ UNCHANGED <<config, namespaces, procDone, errCh, rm, processErr, clusterVars, renderVars, mainVars, extraVars, fanVars, queueVars>>

\* ResourceMapper.Visualize after the loop; it returns nil, and so does Process
Visualize ==
    /\ pc = "loop"
    /\ nsIdx > Len(namespaces)
    /\ stdout' = Append(stdout, Rendered(RenderClusterView(rm)))
    /\ processErr' = Nil
    /\ pc' = "done"
    /\ UNCHANGED <<config, namespaces, nsIdx, procDone, errCh, rm, clusterVars, renderVars, mainVars, extraVars, fanVars, queueVars>>


\* ResourceMapper.Cleanup while Process runs: rm.cancel()
Cleanup ==
    /\ pc \in {"start", "loop", "wait"}
    /\ ~cancelled
    /\ cancelled' = TRUE
    /\ UNCHANGED <<failing, ingresses, webSelector, mapperVars, renderVars, mainVars, extraVars, fanVars,
                   queueVars>>
\* ------------------------------------------------------------------------
\* The fan-out of a processor: Process lists its primary kind and starts one
\* goroutine per item; a Deployment, Service or ConfigMap item starts its subtask
\* goroutines and waits for them; an Ingress item runs its steps in sequence.
\* A subtask's appends to p.resources / p.relations (each under p.mu) are taken
\* together. A goroutine that was started runs wherever Process stands: only the
\* two wg.Wait calls hold Process and the item back.
\* ------------------------------------------------------------------------
FanKinds == {"Deployment", "Service", "Ingress", "ConfigMap"}

PrimaryKind(p) ==
    CASE p = "Deployment" -> ResourceTypeDeployment
      [] p = "Service" -> ResourceTypeService
      [] p = "Ingress" -> ResourceTypeIngress
      [] p = "ConfigMap" -> ResourceTypeConfigMap

\* the error Process returns when its List fails
ListError(p) ==
    CASE p = "Deployment" -> <<"failed to list deployments">>
      [] p = "Service" -> <<"failed to list services">>
      [] p = "Ingress" -> <<"failed to list Ingresses">>
      [] p = "ConfigMap" -> <<"failed to list ConfigMaps">>

\* the error Process returns when an item goroutine reported err
ItemError(p, err) ==
    CASE p = "Deployment" -> <<"deployment processing error">> \o err
      [] p = "Service" -> <<"service processing error">> \o err
      [] p = "Ingress" -> <<"Ingress processing error">> \o err
      [] p = "ConfigMap" -> <<"ConfigMap processing error">> \o err

Subtasks(p) ==
    CASE p = "Deployment" -> DeploymentSubtasks
      [] p = "ConfigMap" -> ConfigMapSubtasks
      [] OTHER -> ServiceSubtasks

ItemResource(p, ns, item) ==
    CASE p = "Deployment" -> DeploymentResource(ns, item)
      [] p = "Service" -> ServiceResource(ns, item)
      [] p = "Ingress" -> IngressResource(ns, item)
      [] p = "ConfigMap" -> ConfigMapResource(ns, item)

Subtask(p, t, ns, item, order) ==
    CASE p = "Deployment" -> DeploymentProcessor_subtask(t, ns, item, order)
      [] p = "ConfigMap" -> ConfigMapProcessor_subtask(t, ns, item)
      [] OTHER -> ServiceProcessor_subtask(t, ns, item)

\* Process up to wg.Wait: the primary List, then one goroutine per item
FanList ==
    /\ ppc = "start"
    /\ LET l == List(PrimaryKind(proc), pns)
       IN  IF l.err
           THEN /\ perr' = ListError(proc)
                /\ ppc' = "done"
                /\ UNCHANGED <<items, itemPc, subDone, itemErrCh>>
           ELSE /\ items' = l.items
                /\ itemPc' = [i \in 1..Len(l.items) |-> "new"]
                /\ subDone' = [i \in 1..Len(l.items) |-> {}]
                /\ itemErrCh' = [i \in 1..Len(l.items) |-> <<>>]
                /\ ppc' = "wait"
                /\ UNCHANGED perr
    /\ UNCHANGED <<proc, pns, perrCh, presources, prelations,
                   clusterVars, renderVars, mainVars, extraVars, mapperVars, queueVars>>

\* processDeployment / processService / processConfigMap up to wg.Wait: the
\* item's resource is added and the subtask goroutines are started
ItemStart(i) ==
    /\ ppc \in {"wait", "done"}
    /\ proc \in {"Deployment", "Service", "ConfigMap"}
    /\ itemPc[i] = "new"
    /\ presources' = Append(presources, ItemResource(proc, pns, items[i]))
    /\ itemPc' = [itemPc EXCEPT ![i] = "sub"]
    /\ UNCHANGED <<proc, pns, ppc, items, subDone, itemErrCh, perrCh, prelations, perr,
                   clusterVars, renderVars, mainVars, extraVars, mapperVars, queueVars>>

\* an error channel made without a buffer
ItemErrChanCap_unbuffered == Len(<<>>)

\* the capacity of the errChan of processDeployment / processService /
\* processConfigMap: make(chan error, 3)
ItemErrChanCap == 3

\* the capacity of the errChan of Process: make(chan error, len(items))
ProcessErrChanCap(its) == Len(its)

\* errChan <- err can go through: the buffer has room (nothing receives before
\* wg.Wait returned)
CanSend(ch, cap) == Len(ch) < cap

\* one subtask goroutine of an item, up to its call to wg.Done; a subtask that
\* failed stands at its send until errChan has room
ItemSubtask(i, t) ==
    /\ ppc \in {"wait", "done"}
    /\ itemPc[i] = "sub"
    /\ t \notin subDone[i]
    /\ \E order \in (IF proc = "Deployment" /\ t = "configmaps"
                     THEN Perms(configMapNames(items[i])) ELSE {<<>>}) :
         LET r == Subtask(proc, t, pns, items[i], order)
         IN  /\ r.err # Nil => CanSend(itemErrCh[i], ItemErrChanCap)
             /\ presources' = presources \o r.added.resources
             /\ prelations' = prelations \o r.added.relations
             /\ itemErrCh' = IF r.err # Nil
                             THEN [itemErrCh EXCEPT ![i] = Append(@, r.err)]
                             ELSE itemErrCh
    /\ subDone' = [subDone EXCEPT ![i] = @ \cup {t}]
    /\ UNCHANGED <<proc, pns, ppc, items, itemPc, perrCh, perr,
                   clusterVars, renderVars, mainVars, extraVars, mapperVars, queueVars>>

\* processDeployment / processService after wg.Wait: the first error of the
\* item's channel is returned, and the item goroutine sends it to Process
ItemJoin(i) ==
    /\ ppc \in {"wait", "done"}
    /\ itemPc[i] = "sub"
    /\ subDone[i] = Range(Subtasks(proc))
    /\ itemErrCh[i] # <<>> => CanSend(perrCh, ProcessErrChanCap(items))
    /\ perrCh' = IF itemErrCh[i] # <<>> THEN Append(perrCh, Head(itemErrCh[i])) ELSE perrCh
    /\ itemPc' = [itemPc EXCEPT ![i] = "done"]
    /\ UNCHANGED <<proc, pns, ppc, items, subDone, itemErrCh, presources, prelations, perr,
                   clusterVars, renderVars, mainVars, extraVars, mapperVars, queueVars>>

\* processIngress, one statement at a time: addResource, processTLSSecrets,
\* processBackendServices, processIngressClass; none of them returns an error
IngressStep(i) ==
    /\ ppc \in {"wait", "done"}
    /\ proc = "Ingress"
    /\ itemPc[i] \in {"new", "tls", "backends", "class"}
    /\ LET ingResource == IngressResource(pns, items[i])
           added == CASE itemPc[i] = "new" -> Added(<<ingResource>>, <<>>)
                      [] itemPc[i] = "tls" -> processTLSSecrets(pns, items[i], ingResource)
                      [] itemPc[i] = "backends" ->
                           processBackendServices(pns, items[i], ingResource)
                      [] itemPc[i] = "class" -> processIngressClass(items[i], ingResource)
       IN  /\ presources' = presources \o added.resources
           /\ prelations' = prelations \o added.relations
    /\ itemPc' = [itemPc EXCEPT ![i] =
                    CASE @ = "new" -> "tls" [] @ = "tls" -> "backends"
                      [] @ = "backends" -> "class" [] @ = "class" -> "done"]
    /\ UNCHANGED <<proc, pns, ppc, items, subDone, itemErrCh, perrCh, perr,
                   clusterVars, renderVars, mainVars, extraVars, mapperVars, queueVars>>

\* Process without its wg.Wait: it reads the channel and returns while the item
\* goroutines may still run
FanJoin_noWait ==
    /\ ppc = "wait"
    /\ perr' = IF perrCh # <<>> THEN ItemError(proc, Head(perrCh)) ELSE Nil
    /\ ppc' = "done"
    /\ UNCHANGED <<proc, pns, items, itemPc, subDone, itemErrCh, perrCh,
                   presources, prelations, clusterVars, renderVars, mainVars, extraVars, mapperVars, queueVars>>

\* Process after wg.Wait: the channel is closed and its first error returned
FanJoin ==
    /\ ppc = "wait"
    /\ \A i \in 1..Len(items) : itemPc[i] = "done"
    /\ perr' = IF perrCh # <<>> THEN ItemError(proc, Head(perrCh)) ELSE Nil
    /\ ppc' = "done"
    /\ UNCHANGED <<proc, pns, items, itemPc, subDone, itemErrCh, perrCh,
                   presources, prelations, clusterVars, renderVars, mainVars, extraVars, mapperVars, queueVars>>

\* the caller cancels the ctx it handed to Process
FanCancel ==
    /\ ppc \in {"start", "wait"}
    /\ ~cancelled
    /\ cancelled' = TRUE
    /\ UNCHANGED <<failing, ingresses, webSelector, fanVars, mapperVars, renderVars, mainVars, extraVars,
                   queueVars>>

\* the first error of a channel the goroutines sent errs to (Nil: none)
FirstError(errs) ==
    IF SelectSeq(errs, LAMBDA e : e # Nil) = <<>> THEN Nil
    ELSE Head(SelectSeq(errs, LAMBDA e : e # Nil))

\* the results of the subtasks of an item, in start order
SubtaskResults(p, ns, item) ==
    [k \in 1..Len(Subtasks(p)) |->
        Subtask(p, Subtasks(p)[k], ns, item,
                IF p = "Deployment" THEN CHOOSE o \in Perms(configMapNames(item)) : TRUE
                ELSE <<>>)]

\* processDeployment / processService once the subtasks gave subs
ItemJoined(resource, subs) ==
    SubResult(FirstError([k \in 1..Len(subs) |-> subs[k].err]),
              AddedConcat(Added(<<resource>>, <<>>),
                          AddedAll([k \in 1..Len(subs) |-> subs[k].added])))

\* what one item goroutine adds and the error it reports, its subtasks taken in
\* start order
ItemOutcome(p, ns, item) ==
    IF p = "Ingress" THEN SubResult(Nil, processIngress(ns, item))
    ELSE ItemJoined(ItemResource(p, ns, item), SubtaskResults(p, ns, item))

ResultOf(err, added) == ProcessorResult(err, added.resources, added.relations)

\* Process once the item goroutines gave outs
FanJoined(p, outs) ==
    ResultOf(IF FirstError([i \in 1..Len(outs) |-> outs[i].err]) = Nil THEN Nil
             ELSE ItemError(p, FirstError([i \in 1..Len(outs) |-> outs[i].err])),
             AddedAll([i \in 1..Len(outs) |-> outs[i].added]))

\* Process followed by GetResources and GetRelationships, the item goroutines
\* taken in list order
FanOutcome(p, ns) ==
    IF List(PrimaryKind(p), ns).err THEN ProcessorResult(ListError(p), <<>>, <<>>)
    ELSE FanJoined(p, [i \in 1..Len(List(PrimaryKind(p), ns).items) |->
                         ItemOutcome(p, ns, List(PrimaryKind(p), ns).items[i])])

\* ------------------------------------------------------------------------
\* common-processing.go: ProcessResources, ProcessingQueue and the ResourceSet
\* (common-types.go).  A task is one goroutine started by AddTask; its reads
\* and writes of *result are not guarded by any lock and are steps of their
\* own, the operations on the ResourceSet and on queue.metrics hold their lock.
\* ------------------------------------------------------------------------
ErrChanCap == 100

\* ResourceSet.Contains (under RLock)
ResourceSet_Contains(set, resource) == ResourceKey(resource) \in set

\* ResourceSet.Add (under Lock)
ResourceSet_Add(set, resource) == set \cup {ResourceKey(resource)}

Tasks == 1..Len(processors)

NoLocal == [slice |-> <<>>, n |-> 0]

\* proc.Process(ctx) with GetResources and GetRelationships; the provider
\* refuses every call made with a cancelled context
TaskProcess(p, ns) ==
    IF cancelled
    THEN ProcessorResult(ListError(p) \o <<"context canceled">>, <<>>, <<>>)
    ELSE FanOutcome(p, ns)

\* where a task goes after the resource at index k of its range loop
AfterResource(i, k) == IF k < Len(tout[i].resources) THEN "contains" ELSE "loadRelations"

\* ProcessResources up to queue.Wait: AddTask starts one goroutine per processor
QueueStart ==
    /\ qpc = "start"
    /\ tpc' = [i \in Tasks |-> "process"]
    /\ qpc' = "wait"
    /\ UNCHANGED <<processors, qns, tout, tidx, tlocal, resourceSet, result,
                   qerrChan, qmetrics, clusterVars, renderVars, mainVars, extraVars, mapperVars, fanVars>>

\* AddTask after task() returned: the error, if any, is sent to queue.errChan
\* (or counted when the channel is full), then queue.metrics.ResourcesProcessed++
\* under metricMu and wg.Done
AddTask_finish(metrics, ch, err) ==
    [metrics |-> [metrics EXCEPT
                    !.ErrorCount = IF err # Nil /\ Len(ch) >= ErrChanCap THEN @ + 1 ELSE @,
                    !.ResourcesProcessed = @ + 1],
     errChan |-> IF err # Nil /\ Len(ch) < ErrChanCap THEN Append(ch, err) ELSE ch]

\* the task after proc.Process gave out: on an error it returns it wrapped and
\* the goroutine of AddTask ends, else it starts collecting
TaskRunWith(i, out) ==
    /\ tout' = [tout EXCEPT ![i] = out]
    /\ IF out.err # Nil
       THEN /\ qerrChan' =
                 AddTask_finish(qmetrics, qerrChan, <<"processor error">> \o out.err).errChan
            /\ qmetrics' =
                 AddTask_finish(qmetrics, qerrChan, <<"processor error">> \o out.err).metrics
            /\ tpc' = [tpc EXCEPT ![i] = "done"]
       ELSE /\ tpc' = [tpc EXCEPT ![i] =
                          IF out.resources = <<>> THEN "loadRelations" ELSE "contains"]
            /\ UNCHANGED <<qerrChan, qmetrics>>

\* the task calls proc.Process
TaskRun(i) ==
    /\ qpc # "start"
    /\ tpc[i] = "process"
    /\ \E out \in {TaskProcess(processors[i], qns)} : TaskRunWith(i, out)
    /\ UNCHANGED <<processors, qns, qpc, tidx, tlocal, resourceSet, result,
                   clusterVars, renderVars, mainVars, extraVars, mapperVars, fanVars>>

\* if !resourceSet.Contains(resource)
TaskContains(i) ==
    /\ tpc[i] = "contains"
    /\ IF ResourceSet_Contains(resourceSet, tout[i].resources[tidx[i]])
       THEN /\ tpc' = [tpc EXCEPT ![i] = AfterResource(i, tidx[i])]
            /\ tidx' = [tidx EXCEPT ![i] = @ + 1]
       ELSE /\ tpc' = [tpc EXCEPT ![i] = "add"]
            /\ UNCHANGED tidx
    /\ UNCHANGED <<processors, qns, qpc, tout, tlocal, resourceSet, result,
                   qerrChan, qmetrics, clusterVars, renderVars, mainVars, extraVars, mapperVars, fanVars>>

\* resourceSet.Add(resource), then the read of result.Resources by append
TaskAdd(i) ==
    /\ tpc[i] = "add"
    /\ resourceSet' = ResourceSet_Add(resourceSet, tout[i].resources[tidx[i]])
    /\ tlocal' = [tlocal EXCEPT ![i].slice = result.Resources]
    /\ tpc' = [tpc EXCEPT ![i] = "storeResources"]
    /\ UNCHANGED <<processors, qns, qpc, tout, tidx, result,
                   qerrChan, qmetrics, clusterVars, renderVars, mainVars, extraVars, mapperVars, fanVars>>

\* result.Resources = append(<what was read>, resource)
TaskStoreResources(i) ==
    /\ tpc[i] = "storeResources"
    /\ result' = [result EXCEPT !.Resources =
                     Append(tlocal[i].slice, tout[i].resources[tidx[i]])]
    /\ tpc' = [tpc EXCEPT ![i] = AfterResource(i, tidx[i])]
    /\ tidx' = [tidx EXCEPT ![i] = @ + 1]
    /\ UNCHANGED <<processors, qns, qpc, tout, tlocal, resourceSet,
                   qerrChan, qmetrics, clusterVars, renderVars, mainVars, extraVars, mapperVars, fanVars>>

\* the read of result.Relations by append(result.Relations, relations...)
TaskLoadRelations(i) ==
    /\ tpc[i] = "loadRelations"
    /\ tlocal' = [tlocal EXCEPT ![i].slice = result.Relations]
    /\ tpc' = [tpc EXCEPT ![i] = "storeRelations"]
    /\ UNCHANGED <<processors, qns, qpc, tout, tidx, resourceSet, result,
                   qerrChan, qmetrics, clusterVars, renderVars, mainVars, extraVars, mapperVars, fanVars>>

\* result.Relations = append(<what was read>, relations...), then the read of
\* result.Metrics.RelationsDiscovered by +=
TaskStoreRelations(i) ==
    /\ tpc[i] = "storeRelations"
    /\ result' = [result EXCEPT !.Relations = tlocal[i].slice \o tout[i].relations]
    /\ tlocal' = [tlocal EXCEPT ![i].n = result.Metrics.RelationsDiscovered]
    /\ tpc' = [tpc EXCEPT ![i] = "storeDiscovered"]
    /\ UNCHANGED <<processors, qns, qpc, tout, tidx, resourceSet,
                   qerrChan, qmetrics, clusterVars, renderVars, mainVars, extraVars, mapperVars, fanVars>>

\* result.Metrics.RelationsDiscovered = <what was read> + len(relations); the
\* task returns nil and the goroutine of AddTask ends
TaskStoreDiscovered(i) ==
    /\ tpc[i] = "storeDiscovered"
    /\ result' = [result EXCEPT !.Metrics.RelationsDiscovered =
                     tlocal[i].n + Len(tout[i].relations)]
    /\ qmetrics' = AddTask_finish(qmetrics, qerrChan, Nil).metrics
    /\ tpc' = [tpc EXCEPT ![i] = "done"]
    /\ UNCHANGED <<processors, qns, qpc, tout, tidx, tlocal, resourceSet,
                   qerrChan, clusterVars, renderVars, mainVars, extraVars, mapperVars, fanVars>>

\* ProcessResources after queue.Wait returned errs
ProcessResources_return(res, errs) ==
    [res EXCEPT !.Errors = IF Len(errs) > 0 THEN errs ELSE @,
                !.Metrics.ErrorCount = IF Len(errs) > 0 THEN Len(errs) ELSE @,
                !.Metrics.ResourcesProcessed = Len(res.Resources)]

\* queue.Wait, case <-done: every task called wg.Done; the channel is closed
\* and its errors are collected; ProcessResources returns result
WaitDone ==
    /\ qpc = "wait"
    /\ \A i \in Tasks : tpc[i] = "done"
    /\ result' = ProcessResources_return(result, qerrChan)
    /\ qpc' = "returned"
    /\ UNCHANGED <<processors, qns, tpc, tout, tidx, tlocal, resourceSet,
                   qerrChan, qmetrics, clusterVars, renderVars, mainVars, extraVars, mapperVars, fanVars>>

\* queue.Wait, case <-q.ctx.Done(): Wait returns at once with one error,
\* whatever the tasks are doing; ProcessResources returns result
WaitCancelled ==
    /\ qpc = "wait"
    /\ cancelled
    /\ result' = ProcessResources_return(result, << <<"processing cancelled">> >>)
    /\ qpc' = "returned"
    /\ UNCHANGED <<processors, qns, tpc, tout, tidx, tlocal, resourceSet,
                   qerrChan, qmetrics, clusterVars, renderVars, mainVars, extraVars, mapperVars, fanVars>>

\* the caller's context is cancelled
Cancel ==
    /\ qpc \in {"start", "wait"}
    /\ ~cancelled
    /\ cancelled' = TRUE
    /\ UNCHANGED <<processors, qns, qpc, tpc, tout, tidx, tlocal, resourceSet, result,
                   qerrChan, qmetrics, failing, ingresses, webSelector, renderVars, mainVars, extraVars,
                   mapperVars, fanVars>>

\* ------------------------------------------------------------------------
\* visualizer.go: a Visualizer over a finished mapping, rendered any number of
\* times while the clock runs and the process-wide colour switch may be set
\* ------------------------------------------------------------------------
\* how far the clock runs, and how many calls of RenderClusterView a run makes
MaxClock == 1
MaxRenders == 2

\* one call of RenderClusterView: what it was called on and what it returned
Call(v, output) ==
    [mapping |-> v.resourceMapping, showDetails |-> v.showDetails,
     colorOutput |-> v.colorOutput, output |-> output]

\* Visualizer.SetOptions
SetOptions(showDetails, colorOutput) ==
    /\ viz' = [viz EXCEPT !.showDetails = showDetails, !.colorOutput = colorOutput]
    /\ viz' # viz
    /\ UNCHANGED <<DisableColors, now, outputs, clusterVars, mapperVars, fanVars, queueVars, mainVars, extraVars>>

\* InitColors: colours are disabled when the output is no terminal or NO_COLOR is set
InitColors(isTerminal, noColor) ==
    /\ DisableColors' = (DisableColors \/ ~isTerminal \/ noColor)
    /\ DisableColors' # DisableColors
    /\ UNCHANGED <<viz, now, outputs, clusterVars, mapperVars, fanVars, queueVars, mainVars, extraVars>>

\* time passes
Tick ==
    /\ now < MaxClock
    /\ now' = now + 1
    /\ UNCHANGED <<viz, DisableColors, outputs, clusterVars, mapperVars, fanVars, queueVars, mainVars, extraVars>>

\* Visualizer.RenderClusterView
Render ==
    /\ Len(outputs) < MaxRenders
    /\ outputs' = Append(outputs,
                         Call(viz, Visualizer_RenderClusterView(viz, now, DisableColors)))
    /\ UNCHANGED <<viz, DisableColors, now, clusterVars, mapperVars, fanVars, queueVars, mainVars, extraVars>>

\* RelationshipProcessor.VisualizeRelationships, called on a processor whose Process
\* has returned
VisualizeRelationshipsCall ==
    /\ ppc = "done"
    /\ Len(outputs) < MaxRenders
    /\ outputs' = Append(outputs, [relations |-> prelations,
                                   lines |-> VisualizeRelationships(prelations)])
    /\ UNCHANGED <<viz, DisableColors, now, clusterVars, mapperVars, fanVars, queueVars,
                   mainVars, extraVars>>
\* ------------------------------------------------------------------------
\* common-filters.go: FilterResources.  A Go string whose characters are read
\* (a name, a name pattern, a label value, a label pattern) is a sequence of
\* one-character strings.
\* ------------------------------------------------------------------------
\* strings.HasPrefix, strings.HasSuffix, strings.Contains
HasPrefix(s, prefix) ==
    Len(prefix) <= Len(s) /\ SubSeq(s, 1, Len(prefix)) = prefix

HasSuffix(s, suffix) ==
    Len(suffix) <= Len(s) /\ SubSeq(s, Len(s) - Len(suffix) + 1, Len(s)) = suffix

StringsContains(s, substr) ==
    \E i \in 1..(Len(s) - Len(substr) + 1) : SubSeq(s, i, i + Len(substr) - 1) = substr

\* strings.TrimPrefix, strings.TrimSuffix: one occurrence is removed
TrimPrefix(s, prefix) ==
    IF HasPrefix(s, prefix) THEN SubSeq(s, Len(prefix) + 1, Len(s)) ELSE s

TrimSuffix(s, suffix) ==
    IF HasSuffix(s, suffix) THEN SubSeq(s, 1, Len(s) - Len(suffix)) ELSE s

\* strings.Trim(s, cutset) for a cutset of one character: every leading and
\* trailing occurrence is removed
RECURSIVE Trim(_, _)
Trim(s, c) ==
    IF s # <<>> /\ Head(s) = c THEN Trim(Tail(s), c)
    ELSE IF s # <<>> /\ s[Len(s)] = c THEN Trim(SubSeq(s, 1, Len(s) - 1), c)
    ELSE s

\* regexp.MustCompile(pattern).MatchString(s) for the patterns made of literal
\* characters, "." and the anchors "^" (first) and "$" (last): the body matches
\* at some offset of s, at the first one under "^", up to the end under "$"
MatchString(pattern, s) ==
    LET fromStart == HasPrefix(pattern, <<"^">>)
        toEnd == HasSuffix(pattern, <<"$">>)
        body == TrimSuffix(TrimPrefix(pattern, <<"^">>), <<"$">>)
    IN  \E at \in (IF fromStart THEN {1} ELSE 1..(Len(s) + 1)) :
            /\ at + Len(body) - 1 <= Len(s)
            /\ toEnd => at + Len(body) - 1 = Len(s)
            /\ \A j \in 1..Len(body) : body[j] = "." \/ body[j] = s[at + j - 1]

\* contains
contains(slice, item) == \E i \in 1..Len(slice) : slice[i] = item

\* matchLabelValue
matchLabelValue(value, pattern) ==
    IF HasPrefix(pattern, <<"*">>) /\ HasSuffix(pattern, <<"*">>)
        THEN StringsContains(value, Trim(pattern, "*"))
    ELSE IF HasPrefix(pattern, <<"*">>)
        THEN HasSuffix(value, TrimPrefix(pattern, <<"*">>))
    ELSE IF HasSuffix(pattern, <<"*">>)
        THEN HasPrefix(value, TrimSuffix(pattern, <<"*">>))
    ELSE value = pattern

\* a matchLabels that is content with one matching label
matchLabels_anyLabel(resourceLabels, filterLabels) ==
    \/ DOMAIN filterLabels = {}
    \/ \E k \in DOMAIN filterLabels :
          /\ k \in DOMAIN resourceLabels
          /\ matchLabelValue(resourceLabels[k], filterLabels[k])

\* matchLabels: a map is a function from its keys
matchLabels(resourceLabels, filterLabels) ==
    \/ DOMAIN filterLabels = {}
    \/ \A k \in DOMAIN filterLabels :
          /\ k \in DOMAIN resourceLabels
          /\ matchLabelValue(resourceLabels[k], filterLabels[k])

\* FilterResources: the body of the loop says whether resource is appended
FilterResources_keeps(resource, f) ==
    IF Len(f.Types) > 0 /\ ~contains(f.Types, resource.Type) THEN FALSE
    ELSE IF Len(f.Namespaces) > 0 /\ ~contains(f.Namespaces, resource.Namespace) THEN FALSE
    ELSE IF f.NameMatch # <<>> /\ ~MatchString(f.NameMatch, resource.Name) THEN FALSE
    ELSE IF ~matchLabels(resource.Labels, f.LabelMatch) THEN FALSE
    ELSE TRUE

\* FilterResources: the loop from index i on, kept being what was appended
RECURSIVE FilterResources_loop(_, _, _, _)
FilterResources_loop(resources, f, i, kept) ==
    IF i > Len(resources) THEN kept
    ELSE FilterResources_loop(resources, f, i + 1,
             IF FilterResources_keeps(resources[i], f)
             THEN Append(kept, resources[i]) ELSE kept)

\* FilterResources
FilterResources(resources, f) ==
    IF Len(resources) = 0 THEN resources
    ELSE FilterResources_loop(resources, f, 1, <<>>)

\* the zero ResourceFilter
NoFilter == [Types |-> <<>>, Namespaces |-> <<>>, LabelMatch |-> <<>>, NameMatch |-> <<>>]

\* the caller filters its resources
Filter_call ==
    /\ filterCalls = 0
    /\ filtered' = FilterResources(filterResources, filter)
    /\ filterCalls' = 1
    /\ UNCHANGED <<filterResources, filter, refiltered, waitVars, relVars,
                   clusterVars, mapperVars, fanVars, queueVars, renderVars, mainVars>>

\* the caller filters what it got with the same filter
Filter_again ==
    /\ filterCalls = 1
    /\ refiltered' = FilterResources(filtered, filter)
    /\ filterCalls' = 2
    /\ UNCHANGED <<filterResources, filter, filtered, waitVars, relVars,
                   clusterVars, mapperVars, fanVars, queueVars, renderVars, mainVars>>
\* ------------------------------------------------------------------------
\* config.go: Config, Validate, IsValidNamespaceName; README.md: main
\* ------------------------------------------------------------------------
\* a name is the sequence of its characters
LowerCase == {"a", "b", "c", "d", "e", "f", "g", "h", "i", "j", "k", "l", "m",
              "n", "o", "p", "q", "r", "s", "t", "u", "v", "w", "x", "y", "z"}
Digits == {"0", "1", "2", "3", "4", "5", "6", "7", "8", "9"}
MaxNamespaceNameLen == 253

\* IsValidNamespaceName: 1..253 characters, each of a-z, 0-9 or '-'
IsValidNamespaceName(name) ==
    IF Len(name) = 0 \/ Len(name) > MaxNamespaceNameLen THEN FALSE
    ELSE \A i \in 1..Len(name) : name[i] \in LowerCase \cup Digits \cup {"-"}

\* the files os.Stat finds
ExistingFiles == {"/kc/config"}

validFormats == {"text", "json", "yaml"}
validGroupings == {"namespace", "type", "none"}

\* DefaultConfig().VisualOptions
DefaultVisualOptions ==
    [ShowColors |-> TRUE, ShowDetails |-> TRUE, CompactView |-> FALSE,
     Format |-> "text", GroupBy |-> "namespace", MaxDepth |-> 5]

\* a Validate that accepts every configuration
Validate_unchecked(c) == Nil

\* Config.Validate: the error it returns (Nil: none); Nil VisualOptions get the defaults;
\* the rejected name is kept as the second element of the error
Validate(c) ==
    LET vo == IF c.VisualOptions = Nil THEN DefaultVisualOptions ELSE c.VisualOptions
    IN  IF c.KubeConfig # "" /\ c.KubeConfig \notin ExistingFiles
            THEN <<"kubeconfig file not found: " \o c.KubeConfig>>
        ELSE IF c.Namespace # <<>> /\ ~IsValidNamespaceName(c.Namespace)
            THEN <<"invalid namespace name: ", c.Namespace>>
        ELSE IF vo.Format \notin validFormats
            THEN <<"invalid output format: " \o vo.Format>>
        ELSE IF vo.GroupBy \notin validGroupings
            THEN <<"invalid grouping: " \o vo.GroupBy>>
        ELSE IF vo.MaxDepth < 1
            THEN <<"invalid max depth: " \o IntString(vo.MaxDepth) \o " (must be >= 1)">>
        ELSE Nil

\* main: the Config it builds from the flags; GroupBy and MaxDepth keep Go's zero values
mainConfig(f) ==
    [Namespace |-> f.namespace, ExcludeNs |-> f.excludeNs, KubeConfig |-> f.kubeconfig,
     VisualOptions |-> [ShowColors |-> ~f.noColor, ShowDetails |-> ~f.noDetails,
                        CompactView |-> f.compactView, Format |-> f.outputFormat,
                        GroupBy |-> "", MaxDepth |-> 0]]

\* the command lines of the runs
LongName == [i \in 1..(MaxNamespaceNameLen + 1) |-> "a"]
NamespaceFlags == {<<>>, <<"d", "e", "v">>, <<"-", "x", "-">>, <<"D", "e", "v">>,
                   <<"a", "_", "b">>, LongName}
FlagSets ==
    {[namespace |-> n, excludeNs |-> <<>>, kubeconfig |-> k, noColor |-> nc,
      noDetails |-> FALSE, compactView |-> FALSE, outputFormat |-> o, help |-> h] :
        n \in NamespaceFlags, k \in {"", "/kc/config", "/kc/none"},
        nc \in BOOLEAN, o \in {"text", "yaml", "xml"}, h \in BOOLEAN}

NoFlags ==
    [namespace |-> <<>>, excludeNs |-> <<>>, kubeconfig |-> "", noColor |-> FALSE,
     noDetails |-> FALSE, compactView |-> FALSE, outputFormat |-> "text", help |-> FALSE]

\* main is not running
MainIdle ==
    /\ flags = NoFlags
    /\ mainPc = "idle"
    /\ exitCode = -1
    /\ clientCreated = FALSE

\* main: -h prints the help and exits with 0
main_help ==
    /\ mainPc = "parsed"
    /\ flags.help
    /\ mainPc' = "exited"
    /\ exitCode' = 0
    /\ UNCHANGED <<flags, clientCreated, clusterVars, mapperVars, fanVars, queueVars,
                   renderVars, extraVars>>

\* main: cfg.Validate(); an error ends the process with 1, else NewResourceMapper
\* creates the client
main_run ==
    /\ mainPc = "parsed"
    /\ ~flags.help
    /\ IF Validate(mainConfig(flags)) # Nil
           THEN /\ mainPc' = "exited"
                /\ exitCode' = 1
                /\ UNCHANGED clientCreated
           ELSE /\ mainPc' = "mapper"
                /\ clientCreated' = TRUE
                /\ UNCHANGED exitCode
    /\ UNCHANGED <<flags, clusterVars, mapperVars, fanVars, queueVars, renderVars, extraVars>>

\* ------------------------------------------------------------------------
\* common-processing.go: a ProcessingQueue taken alone.  Its owner calls AddTask
\* for each task and then Wait, on a context that is not cancelled.  The tasks
\* only differ by whether their function returns an error, so they are taken
\* to return in the order they were added; a task may return before or after
\* the owner calls Wait.  The error of task i is written i.
\* ------------------------------------------------------------------------
MaxTasks == 102

\* AddTask: q.wg.Add(1) and the goroutine is started
AddTask ==
    /\ waitPc = "adding"
    /\ wgAdded < taskCount
    /\ wgAdded' = wgAdded + 1
    /\ UNCHANGED <<taskCount, failingTasks, wgReported, wgDone, errChan, errChanClosed,
                   queueMetrics, waitPc, collectorPc, collectorErr, errors,
                   relVars, filterVars, clusterVars, mapperVars, fanVars, queueVars, renderVars, mainVars>>

\* the goroutine of AddTask after task() returned: an error is sent to q.errChan
\* if the channel has room, else it is only counted (the default case)
AddTask_report(ch, m, i, failed) ==
    [errChan |-> IF failed /\ Len(ch) < ErrChanCap THEN Append(ch, i) ELSE ch,
     metrics |-> [m EXCEPT !.ErrorCount =
                              IF failed /\ Len(ch) >= ErrChanCap THEN @ + 1 ELSE @]]

\* the next task's function returns and its goroutine runs the select
TaskReturn ==
    /\ wgReported < wgAdded
    /\ \E r \in {AddTask_report(errChan, queueMetrics, wgReported + 1,
                                wgReported + 1 \in failingTasks)} :
          /\ errChan' = r.errChan
          /\ queueMetrics' = r.metrics
    /\ wgReported' = wgReported + 1
    /\ UNCHANGED <<taskCount, failingTasks, wgAdded, wgDone, errChanClosed,
                   waitPc, collectorPc, collectorErr, errors,
                   relVars, filterVars, clusterVars, mapperVars, fanVars, queueVars, renderVars, mainVars>>

\* the goroutine of AddTask ends: ResourcesProcessed++ under metricMu, wg.Done
TaskDone ==
    /\ wgDone < wgReported
    /\ queueMetrics' = [queueMetrics EXCEPT !.ResourcesProcessed = @ + 1]
    /\ wgDone' = wgDone + 1
    /\ UNCHANGED <<taskCount, failingTasks, wgAdded, wgReported, errChan, errChanClosed,
                   waitPc, collectorPc, collectorErr, errors,
                   relVars, filterVars, clusterVars, mapperVars, fanVars, queueVars, renderVars, mainVars>>

\* Wait up to its select: the goroutine waiting for q.wg and the collector
\* goroutine are started
Wait_call ==
    /\ waitPc = "adding"
    /\ wgAdded = taskCount
    /\ waitPc' = "select"
    /\ collectorPc' = "recv"
    /\ UNCHANGED <<taskCount, failingTasks, wgAdded, wgReported, wgDone, errChan,
                   errChanClosed, queueMetrics, collectorErr, errors,
                   relVars, filterVars, clusterVars, mapperVars, fanVars, queueVars, renderVars, mainVars>>

\* the collector: for err := range q.errChan takes the next error
Collector_recv ==
    /\ collectorPc = "recv"
    /\ errChan # <<>>
    /\ collectorErr' = Head(errChan)
    /\ errChan' = Tail(errChan)
    /\ collectorPc' = "send"
    /\ UNCHANGED <<taskCount, failingTasks, wgAdded, wgReported, wgDone, errChanClosed,
                   queueMetrics, waitPc, errors,
                   relVars, filterVars, clusterVars, mapperVars, fanVars, queueVars, renderVars, mainVars>>

\* the collector: q.errChan is closed and empty, the range ends and
\* errorCollector is closed
Collector_close ==
    /\ collectorPc = "recv"
    /\ errChan = <<>>
    /\ errChanClosed
    /\ collectorPc' = "closed"
    /\ UNCHANGED <<taskCount, failingTasks, wgAdded, wgReported, wgDone, errChan,
                   errChanClosed, queueMetrics, waitPc, collectorErr, errors,
                   relVars, filterVars, clusterVars, mapperVars, fanVars, queueVars, renderVars, mainVars>>

\* Wait, case <-done: q.wg.Wait returned, done was closed; close(q.errChan)
Wait_done ==
    /\ waitPc = "select"
    /\ wgDone = wgAdded
    /\ errChanClosed' = TRUE
    /\ waitPc' = "collect"
    /\ UNCHANGED <<taskCount, failingTasks, wgAdded, wgReported, wgDone, errChan,
                   queueMetrics, collectorPc, collectorErr, errors,
                   relVars, filterVars, clusterVars, mapperVars, fanVars, queueVars, renderVars, mainVars>>

\* Wait, for err := range errorCollector: the unbuffered channel hands one error
\* from the collector to Wait
Wait_collect ==
    /\ waitPc = "collect"
    /\ collectorPc = "send"
    /\ errors' = Append(errors, collectorErr)
    /\ collectorPc' = "recv"
    /\ UNCHANGED <<taskCount, failingTasks, wgAdded, wgReported, wgDone, errChan,
                   errChanClosed, queueMetrics, waitPc, collectorErr,
                   relVars, filterVars, clusterVars, mapperVars, fanVars, queueVars, renderVars, mainVars>>

\* Wait: errorCollector is closed, the range ends and errors is returned
Wait_return ==
    /\ waitPc = "collect"
    /\ collectorPc = "closed"
    /\ waitPc' = "returned"
    /\ UNCHANGED <<taskCount, failingTasks, wgAdded, wgReported, wgDone, errChan,
                   errChanClosed, queueMetrics, collectorPc, collectorErr, errors,
                   relVars, filterVars, clusterVars, mapperVars, fanVars, queueVars, renderVars, mainVars>>
\* ------------------------------------------------------------------------
\* mapper.go: RelationshipProcessor.  Process starts one goroutine per
\* sub-processor, waits for them, and then runs the ingress pass on its own.
\* ------------------------------------------------------------------------
\* NewRelationshipProcessor: the sub-processors, in creation order
RelationshipProcessor_processors == <<"Deployment", "Service", "ConfigMap">>

\* a goroutine that has not come back from proc.Process
NoOut == [pending |-> FALSE]

\* RelationshipProcessor.addRelationships (under p.mu)
RelationshipProcessor_addRelationships(relations, relationships) ==
    relations \o relationships

\* Process up to wg.Wait: errCh is made and the goroutines are started
RelationshipProcessor_start ==
    /\ rpPc = "start"
    /\ rpPc' = "wait"
    /\ UNCHANGED <<rpNs, rpOut, rpDone, rpErrCh, rpResources, rpRelations, rpPos, rpErr,
                   waitVars, filterVars, clusterVars, mapperVars, fanVars, queueVars, renderVars, mainVars>>

\* a sub-processor goroutine: proc.Process(ctx, namespace) returns; an error is
\* sent to errCh and the goroutine ends, else the goroutine goes on to
\* addRelationships
RelationshipProcessor_run(p) ==
    /\ rpPc \notin {"idle", "start", "panic"}
    /\ p \notin rpDone
    /\ rpOut[p] = NoOut
    /\ ~ProcessorPanics(p, rpNs)
    /\ \E order \in (IF p = "ConfigMap" THEN MapOrders
                     ELSE {<<"volume", "environment", "environment variable">>}) :
         \E res \in {ProcessorProcess(p, rpNs, order)} :
             IF res.err # Nil
             THEN /\ Len(rpErrCh) < Len(RelationshipProcessor_processors)
                  /\ rpErrCh' = Append(rpErrCh, res.err)
                  /\ rpDone' = rpDone \cup {p}
                  /\ UNCHANGED rpOut
             ELSE /\ rpOut' = [rpOut EXCEPT ![p] = [pending |-> TRUE, res |-> res]]
                  /\ UNCHANGED <<rpErrCh, rpDone>>
    /\ UNCHANGED <<rpNs, rpPc, rpResources, rpRelations, rpPos, rpErr,
                   waitVars, filterVars, clusterVars, mapperVars, fanVars, queueVars, renderVars, mainVars>>

\* a sub-processor goroutine panics inside proc.Process: the program ends
RelationshipProcessor_runPanics(p) ==
    /\ rpPc \notin {"idle", "start", "panic"}
    /\ p \notin rpDone
    /\ rpOut[p] = NoOut
    /\ ProcessorPanics(p, rpNs)
    /\ rpPc' = "panic"
    /\ UNCHANGED <<rpNs, rpOut, rpDone, rpErrCh, rpResources, rpRelations, rpPos, rpErr,
                   waitVars, filterVars, clusterVars, mapperVars, fanVars, queueVars, renderVars, mainVars>>

\* a sub-processor goroutine: p.addRelationships(proc.GetRelationships()), then
\* the deferred wg.Done
RelationshipProcessor_add(p) ==
    /\ rpPc # "panic"
    /\ p \notin rpDone
    /\ rpOut[p] # NoOut
    /\ rpRelations' = RelationshipProcessor_addRelationships(rpRelations, rpOut[p].res.relations)
    /\ rpDone' = rpDone \cup {p}
    /\ UNCHANGED <<rpNs, rpPc, rpOut, rpErrCh, rpResources, rpPos, rpErr,
                   waitVars, filterVars, clusterVars, mapperVars, fanVars, queueVars, renderVars, mainVars>>

\* Process without its wg.Wait: it reads errCh and goes on while sub-processors
\* may still run
RelationshipProcessor_join_noWait ==
    /\ rpPc = "wait"
    /\ IF rpErrCh # <<>>
       THEN /\ rpErr' = <<"processor error">> \o Head(rpErrCh)
            /\ rpPc' = "done"
            /\ UNCHANGED rpPos
       ELSE /\ rpPc' = "ingress"
            /\ rpPos' = 1
            /\ UNCHANGED rpErr
    /\ UNCHANGED <<rpNs, rpOut, rpDone, rpErrCh, rpResources, rpRelations,
                   waitVars, filterVars, clusterVars, mapperVars, fanVars, queueVars, renderVars, mainVars>>

\* Process after wg.Wait: errCh is closed; its first error is returned wrapped,
\* else processIngressRelationships is called
RelationshipProcessor_join ==
    /\ rpPc = "wait"
    /\ rpDone = Range(RelationshipProcessor_processors)
    /\ IF rpErrCh # <<>>
       THEN /\ rpErr' = <<"processor error">> \o Head(rpErrCh)
            /\ rpPc' = "done"
            /\ UNCHANGED rpPos
       ELSE /\ rpPc' = "ingress"
            /\ rpPos' = 1
            /\ UNCHANGED rpErr
    /\ UNCHANGED <<rpNs, rpOut, rpDone, rpErrCh, rpResources, rpRelations,
                   waitVars, filterVars, clusterVars, mapperVars, fanVars, queueVars, renderVars, mainVars>>

\* processIngressRelationships: the List of the Ingresses; on an error Process
\* returns it wrapped
RelationshipProcessor_listIngresses ==
    /\ rpPc = "ingress"
    /\ IF List(ResourceTypeIngress, rpNs).err
       THEN /\ rpErr' = <<"error processing ingress relationships",
                          "failed to list ingresses">>
            /\ rpPc' = "done"
       ELSE /\ rpPc' = "loop"
            /\ UNCHANGED rpErr
    /\ UNCHANGED <<rpNs, rpOut, rpDone, rpErrCh, rpResources, rpRelations, rpPos,
                   waitVars, filterVars, clusterVars, mapperVars, fanVars, queueVars, renderVars, mainVars>>

\* processIngressRelationships: the relationships the paths give, in order, up
\* to the first path without a service reference (svcName := path.Backend.Service.Name
\* panics there); a Service that cannot be got is skipped
RECURSIVE pathRelationships(_, _, _)
pathRelationships(ns, ingResource, paths) ==
    IF paths = <<>> THEN [panic |-> FALSE, relations |-> <<>>]
    ELSE IF Head(paths).service = NoService THEN [panic |-> TRUE, relations |-> <<>>]
    ELSE LET svc == Get(ResourceTypeService, ns, Head(paths).service)
             rest == pathRelationships(ns, ingResource, Tail(paths))
             rel == Relationship(ingResource,
                                 Resource(ResourceTypeService, ns, svc.item.name),
                                 RelationshipTypeExposes,
                                 "exposes via " \o Head(paths).host \o Head(paths).path)
         IN  [panic |-> rest.panic,
              relations |-> (IF svc.err THEN <<>> ELSE <<rel>>) \o rest.relations]

\* processIngressRelationships: the body of the loop over ingresses.Items; the
\* appends to p.resources and p.relations take no lock
RelationshipProcessor_ingress ==
    /\ rpPc = "loop"
    /\ rpPos <= Len(List(ResourceTypeIngress, rpNs).items)
    /\ \E ing \in {List(ResourceTypeIngress, rpNs).items[rpPos]} :
       \E got \in {pathRelationships(rpNs, Resource(ResourceTypeIngress, rpNs, ing.name),
                                     IngressPaths(ing))} :
          /\ rpResources' = Append(rpResources, Resource(ResourceTypeIngress, rpNs, ing.name))
          /\ rpRelations' = rpRelations \o got.relations
          /\ rpPc' = IF got.panic THEN "panic" ELSE "loop"
          /\ rpPos' = IF got.panic THEN rpPos ELSE rpPos + 1
    /\ UNCHANGED <<rpNs, rpOut, rpDone, rpErrCh, rpErr,
                   waitVars, filterVars, clusterVars, mapperVars, fanVars, queueVars, renderVars, mainVars>>

\* processIngressRelationships returns nil after the loop, and so does Process
RelationshipProcessor_return ==
    /\ rpPc = "loop"
    /\ rpPos > Len(List(ResourceTypeIngress, rpNs).items)
    /\ rpErr' = Nil
    /\ rpPc' = "done"
    /\ UNCHANGED <<rpNs, rpOut, rpDone, rpErrCh, rpResources, rpRelations, rpPos,
                   waitVars, filterVars, clusterVars, mapperVars, fanVars, queueVars, renderVars, mainVars>>
\* the List calls that can be refused in a run
FailPoints ==
    {<<"default", ResourceTypeDeployment>>, <<"default", ResourceTypePod>>,
     <<"default", ResourceTypeHPA>>, <<"default", ResourceTypeService>>,
     <<"default", ResourceTypeIngress>>, <<"default", ResourceTypeConfigMap>>,
     <<"restricted", ResourceTypeDeployment>>, <<"restricted", ResourceTypeHPA>>,
     <<"", ResourceTypeNamespace>>}

Failings == {f \in SUBSET FailPoints : Cardinality(f) <= MaxListFailures}

Configs ==
    {[Namespace |-> n, ExcludeNs |-> x] :
        n \in {"", "restricted", "ghost"},
        x \in {<<>>, <<"default">>, <<"restricted">>}}

\* a component that does not run in a specification stays as constructed
MapperIdle ==
    /\ config = [Namespace |-> "", ExcludeNs |-> <<>>]
    /\ pc = "idle"
    /\ namespaces = <<>>
    /\ nsIdx = 1
    /\ procDone = {}
    /\ errCh = <<>>
    /\ rm = EmptyResourceMapping
    /\ stdout = <<>>
    /\ processErr = Nil

FanIdle ==
    /\ proc = "Ingress"
    /\ pns = ""
    /\ ppc = "idle"
    /\ items = <<>>
    /\ itemPc = <<>>
    /\ subDone = <<>>
    /\ itemErrCh = <<>>
    /\ perrCh = <<>>
    /\ presources = <<>>
    /\ prelations = <<>>
    /\ perr = Nil

EmptyMetrics == [ResourcesProcessed |-> 0, RelationsDiscovered |-> 0, ErrorCount |-> 0]

EmptyProcessingResult ==
    [Resources |-> <<>>, Relations |-> <<>>, Metrics |-> EmptyMetrics, Errors |-> <<>>]

\* no Visualizer yet: NewVisualizer's defaults over an empty mapping
RenderIdle ==
    /\ viz = NewVisualizer(EmptyResourceMapping)
    /\ DisableColors = FALSE
    /\ now = 0
    /\ outputs = <<>>

QueueIdle ==
    /\ processors = <<>>
    /\ qns = ""
    /\ qpc = "idle"
    /\ tpc = <<>>
    /\ tout = <<>>
    /\ tidx = <<>>
    /\ tlocal = <<>>
    /\ resourceSet = {}
    /\ result = EmptyProcessingResult
    /\ qerrChan = <<>>
    /\ qmetrics = EmptyMetrics

WaitIdle ==
    /\ taskCount = 0
    /\ failingTasks = {}
    /\ wgAdded = 0
    /\ wgReported = 0
    /\ wgDone = 0
    /\ errChan = <<>>
    /\ errChanClosed = FALSE
    /\ queueMetrics = EmptyMetrics
    /\ waitPc = "idle"
    /\ collectorPc = "none"
    /\ collectorErr = 0
    /\ errors = <<>>

RelIdle ==
    /\ rpNs = ""
    /\ rpPc = "idle"
    /\ rpOut = [p \in Range(RelationshipProcessor_processors) |-> NoOut]
    /\ rpDone = {}
    /\ rpErrCh = <<>>
    /\ rpResources = <<>>
    /\ rpRelations = <<>>
    /\ rpPos = 0
    /\ rpErr = Nil

FilterIdle ==
    /\ filterResources = <<>>
    /\ filter = NoFilter
    /\ filterCalls = 0
    /\ filtered = <<>>
    /\ refiltered = <<>>

ExtraIdle == WaitIdle /\ RelIdle /\ FilterIdle

MapperInit ==
    /\ FanIdle
    /\ QueueIdle
    /\ RenderIdle
    /\ MainIdle
    /\ ExtraIdle
    /\ cancelled = FALSE
    /\ failing \in Failings
    /\ webSelector = ScenarioSelector
    /\ ingresses = <<ScenarioIngress>>
    /\ config \in Configs
    /\ pc = "start"
    /\ namespaces = <<>>
    /\ nsIdx = 1
    /\ procDone = {}
    /\ errCh = <<>>
    /\ rm = EmptyResourceMapping
    /\ stdout = <<>>
    /\ processErr = Nil

MapperNext ==
    \/ GetNamespaces
    \/ StartNamespace
    \/ \E p \in Range(Processors) : RunProcessor(p)
    \/ JoinNamespace
    \/ Visualize

vars == <<clusterVars, mapperVars, fanVars, queueVars, renderVars, mainVars, extraVars>>

SpecMapper == MapperInit /\ [][MapperNext]_vars

\* the run with a Cleanup that can come at any moment of it
MapperCancelNext == MapperNext \/ Cleanup

\* the provider refuses nothing of its own in these runs
MapperCancelInit == MapperInit /\ failing = {}

SpecMapperCancel == MapperCancelInit /\ [][MapperCancelNext]_vars

\* the goroutines of the run are scheduled, and every call to the provider returns
SpecMapperCancelFair == SpecMapperCancel /\ WF_vars(MapperNext)


\* ------------------------------------------------------------------------
\* One fan-out processor run on its own (SpecFanout)
\* ------------------------------------------------------------------------
MaxTLS == 2
MaxPaths == 2

SeqsUpTo(S, n) == UNION {[1..k -> S] : k \in 0..n}

SecretNames == {"web-tls", "ghost-tls", ""}
BackendNames == {"web-svc", "admin-svc", "ghost-svc", NoService}
ClassNames == {"nginx", "ghost-class", ""}

\* an Ingress with the given TLS secret names, default backend, path backends
\* and class name; its first rule has no HTTP section
IngressOf(tlsNames, defaultBackend, backends, className) ==
    [name |-> "web-ing",
     defaultBackend |-> defaultBackend,
     rules |-> << [host |-> "static.example.com", http |-> FALSE, paths |-> <<>>],
                  [host |-> "app.example.com", http |-> TRUE,
                   paths |-> [j \in 1..Len(backends) |->
                                [path |-> "/p" \o IntString(j), service |-> backends[j]]]] >>,
     tls |-> [i \in 1..Len(tlsNames) |->
                [secretName |-> tlsNames[i], hosts |-> <<"app.example.com">>]],
     className |-> className]

IngressShapes ==
    {IngressOf(t, d, b, c) :
        t \in SeqsUpTo(SecretNames, MaxTLS), d \in BackendNames \ {"admin-svc"},
        b \in SeqsUpTo(BackendNames, MaxPaths), c \in ClassNames}

SecondIngress ==
    [name |-> "admin-ing",
     defaultBackend |-> "admin-svc",
     rules |-> << [host |-> "admin.example.com", http |-> TRUE,
                   paths |-> << [path |-> "/", service |-> "web-svc"] >>] >>,
     tls |-> <<>>,
     className |-> ""]

IngressInputs == {<<g>> : g \in IngressShapes} \cup {<<ScenarioIngress, SecondIngress>>}

MaxSelector == 2

LabelPairs == {Label("app", "web"), Label("app", "job"),
               Label("tier", "front"), Label("tier", "back")}

\* the selectors a Service can have: nil, or a map (one value per key) of at
\* most MaxSelector pairs, the empty map included
Selectors ==
    {NoSelector} \cup
    {Selector(s) : s \in {m \in SUBSET LabelPairs :
                              /\ Cardinality(m) <= MaxSelector
                              /\ \A a, b \in m : a[1] = b[1] => a = b}}

\* the List calls a processor makes in namespace ns
FanFailPoints(p, ns) ==
    CASE p = "Deployment" ->
           {<<ns, ResourceTypeDeployment>>, <<ns, ResourceTypePod>>, <<ns, ResourceTypeHPA>>}
      [] p = "Service" ->
           {<<ns, ResourceTypeService>>, <<ns, ResourceTypePod>>, <<ns, ResourceTypeIngress>>}
      [] p = "Ingress" -> {<<ns, ResourceTypeIngress>>}
      [] p = "ConfigMap" ->
           {<<ns, ResourceTypeConfigMap>>, <<ns, ResourceTypePod>>,
            <<ns, ResourceTypeDeployment>>}

FanInit ==
    /\ MapperIdle
    /\ QueueIdle
    /\ RenderIdle
    /\ MainIdle
    /\ ExtraIdle
    /\ cancelled = FALSE
    /\ proc \in FanKinds
    /\ pns \in (IF proc \in {"Ingress", "ConfigMap"} THEN {"default"}
                ELSE {"default", "restricted"})
    /\ failing \in {f \in SUBSET FanFailPoints(proc, pns) : Cardinality(f) <= MaxListFailures}
    /\ ingresses \in (IF proc = "Ingress" THEN IngressInputs ELSE {<<ScenarioIngress>>})
    /\ webSelector \in (IF proc = "Service" THEN Selectors ELSE {ScenarioSelector})
    /\ ppc = "start"
    /\ items = <<>>
    /\ itemPc = <<>>
    /\ subDone = <<>>
    /\ itemErrCh = <<>>
    /\ perrCh = <<>>
    /\ presources = <<>>
    /\ prelations = <<>>
    /\ perr = Nil

FanNext ==
    \/ FanList
    \/ \E i \in 1..Len(items) : ItemStart(i)
    \/ \E i \in 1..Len(items) : \E t \in Range(Subtasks(proc)) : ItemSubtask(i, t)
    \/ \E i \in 1..Len(items) : ItemJoin(i)
    \/ \E i \in 1..Len(items) : IngressStep(i)
    \/ FanJoin

SpecFanout == FanInit /\ [][FanNext]_vars

\* the goroutines of a processor are scheduled, and every call to the provider
\* returns; the cluster is the scenario's, with every choice of refused Lists
FanFairInit ==
    /\ FanInit
    /\ ingresses \in {<<ScenarioIngress>>, <<ScenarioIngress, SecondIngress>>}
    /\ webSelector = ScenarioSelector

SpecFanoutFair == FanFairInit /\ [][FanNext]_vars /\ WF_vars(FanNext)

\* the coordinator with its goroutines scheduled
SpecMapperFair == SpecMapper /\ WF_vars(MapperNext)

\* a processor whose ctx can be cancelled at any moment of Process
FanCancelNext == FanNext \/ FanCancel

SpecFanoutCancel == FanInit /\ [][FanCancelNext]_vars

\* ------------------------------------------------------------------------
\* ProcessResources over fan-out processors (SpecQueue)
\* ------------------------------------------------------------------------
\* the processor lists handed to ProcessResources
QueueInputs == {<<"Deployment", "Service">>, <<"Service", "Ingress">>,
                <<"Ingress", "Service", "Deployment">>, <<"Deployment", "ConfigMap">>}

\* the namespace a processor list is created for: the one holding a ConfigMap
\* for the list with the ConfigMapProcessor
QueueNamespaces(ps) ==
    IF \E i \in 1..Len(ps) : ps[i] = "ConfigMap" THEN {"default"} ELSE {"restricted"}

\* the List calls that can be refused in a run of the queue
QueueFailPoints(ns) ==
    {<<ns, ResourceTypeDeployment>>, <<ns, ResourceTypeService>>, <<ns, ResourceTypePod>>}

QueueFailings(ns) ==
    {f \in SUBSET QueueFailPoints(ns) : Cardinality(f) <= MaxListFailures}

QueueInit ==
    /\ MapperIdle
    /\ FanIdle
    /\ RenderIdle
    /\ MainIdle
    /\ ExtraIdle
    /\ ingresses = <<ScenarioIngress>>
    /\ webSelector = ScenarioSelector
    /\ processors \in QueueInputs
    /\ qns \in QueueNamespaces(processors)
    /\ failing \in QueueFailings(qns)
    /\ cancelled = FALSE
    /\ qpc = "start"
    /\ tpc = [i \in Tasks |-> "new"]
    /\ tout = [i \in Tasks |-> ProcessorResult(Nil, <<>>, <<>>)]
    /\ tidx = [i \in Tasks |-> 1]
    /\ tlocal = [i \in Tasks |-> NoLocal]
    /\ resourceSet = {}
    /\ result = EmptyProcessingResult
    /\ qerrChan = <<>>
    /\ qmetrics = EmptyMetrics

QueueNext ==
    \/ QueueStart
    \/ \E i \in Tasks : TaskRun(i)
    \/ \E i \in Tasks : TaskContains(i)
    \/ \E i \in Tasks : TaskAdd(i)
    \/ \E i \in Tasks : TaskStoreResources(i)
    \/ \E i \in Tasks : TaskLoadRelations(i)
    \/ \E i \in Tasks : TaskStoreRelations(i)
    \/ \E i \in Tasks : TaskStoreDiscovered(i)
    \/ WaitDone
    \/ WaitCancelled
    \/ Cancel

SpecQueue == QueueInit /\ [][QueueNext]_vars


\* ------------------------------------------------------------------------
\* The renderer over a finished mapping (SpecRender)
\* ------------------------------------------------------------------------
MaxEntries == 2

\* resources a discovery can have put into the mapping: Services of two
\* namespaces, two of them with the same name, and a ConfigMap
ResourcePool ==
    {Resource(ResourceTypeService, "default", "web"),
     Resource(ResourceTypeService, "default", "api"),
     Resource(ResourceTypeService, "restricted", "web"),
     Resource(ResourceTypeConfigMap, "default", "cfg")}

\* relationships a discovery can have put into the mapping; the ConfigMap used
\* is the one of namespace restricted, which has the name of the one in default
RelationshipPool ==
    {Relationship(Resource(ResourceTypeService, "default", "web"),
                  Resource(ResourceTypePod, "default", "web-1"),
                  RelationshipTypeTargets, "routes traffic to pod"),
     Relationship(Resource(ResourceTypeService, "default", "web"),
                  Resource(ResourceTypePod, "default", "web-2"),
                  RelationshipTypeTargets, "routes traffic to pod"),
     Relationship(Resource(ResourceTypeService, "restricted", "web"),
                  Resource(ResourceTypePod, "restricted", "web-1"),
                  RelationshipTypeTargets, "routes traffic to pod"),
     Relationship(Resource(ResourceTypeDeployment, "restricted", "app"),
                  Resource(ResourceTypeConfigMap, "restricted", "cfg"),
                  RelationshipTypeUses, "uses config")}

\* the lists without repetition of at most MaxEntries elements of S
ListsOf(S) == UNION {Perms(T) : T \in {T \in SUBSET S : Cardinality(T) <= MaxEntries}}

\* the mappings handed to NewVisualizer
RenderInputs ==
    {[Resources |-> rs, Relationships |-> es] :
        rs \in ListsOf(ResourcePool), es \in ListsOf(RelationshipPool)}

RenderInit ==
    /\ MapperIdle
    /\ FanIdle
    /\ QueueIdle
    /\ MainIdle
    /\ ExtraIdle
    /\ failing = {}
    /\ ingresses = <<ScenarioIngress>>
    /\ webSelector = ScenarioSelector
    /\ cancelled = FALSE
    /\ viz \in {NewVisualizer(m) : m \in RenderInputs}
    /\ DisableColors = FALSE
    /\ now = 0
    /\ outputs = <<>>

RenderNext ==
    \/ \E showDetails, colorOutput \in BOOLEAN : SetOptions(showDetails, colorOutput)
    \/ \E isTerminal, noColor \in BOOLEAN : InitColors(isTerminal, noColor)
    \/ Tick
    \/ Render

SpecRender == RenderInit /\ [][RenderNext]_vars

\* main of the modular program over its command lines
MainInit ==
    /\ ExtraIdle
    /\ MapperIdle
    /\ FanIdle
    /\ QueueIdle
    /\ RenderIdle
    /\ failing = {}
    /\ ingresses = <<ScenarioIngress>>
    /\ webSelector = ScenarioSelector
    /\ cancelled = FALSE
    /\ flags \in FlagSets
    /\ mainPc = "parsed"
    /\ exitCode = -1
    /\ clientCreated = FALSE

MainNext == main_help \/ main_run

SpecMain == MainInit /\ [][MainNext]_vars

\* ------------------------------------------------------------------------
\* The renderer over workloads: Deployments with their replica counts, their
\* Pods and their autoscalers
\* ------------------------------------------------------------------------
MaxReplicas == 2

\* the Deployments a discovery can have found: web in every state of readiness,
\* api fully up
WorkloadPool ==
    {[namespace |-> "default", name |-> "web", ready |-> r, replicas |-> d] :
        r, d \in 0..MaxReplicas}
    \cup {[namespace |-> "default", name |-> "api", ready |-> 1, replicas |-> 1]}

\* the resource as the sequential (resources.go) or the fan-out processor
\* (deployment-processor.go) records it
WorkloadResource(fanOut, d) ==
    IF fanOut THEN processDeployment_resource(d) ELSE DeploymentProcessorSeq_resource(d)

\* the lists of at most two Deployments of different names, all of one processor
WorkloadLists ==
    {<<>>}
    \cup {<<WorkloadResource(p, d)>> : p \in BOOLEAN, d \in WorkloadPool}
    \cup {<<WorkloadResource(p[1], p[2]), WorkloadResource(p[1], p[3])>> :
            p \in {q \in BOOLEAN \X WorkloadPool \X WorkloadPool : q[2].name # q[3].name}}

\* the relationships of these Deployments as processHPA and processPods record them
WorkloadEdges ==
    << Relationship(Resource(ResourceTypeHPA, "default", "web-hpa"),
                    Resource(ResourceTypeDeployment, "default", "web"),
                    RelationshipTypeTargets, "scales 2-5 replicas"),
       Relationship(Resource(ResourceTypeDeployment, "default", "web"),
                    Resource(ResourceTypePod, "default", "web-1"),
                    RelationshipTypeOwns, "manages pod"),
       Relationship(Resource(ResourceTypeDeployment, "default", "web"),
                    Resource(ResourceTypePod, "default", "web-2"),
                    RelationshipTypeOwns, "manages pod") >>

\* the sublists of a list, in its order
SubSeqs(s) ==
    {SelectSeq([i \in 1..Len(s) |-> <<i, s[i]>>], LAMBDA p : p[1] \in I) : I \in SUBSET (1..Len(s))}

Second(s) == [i \in 1..Len(s) |-> s[i][2]]

WorkloadInputs ==
    {[Resources |-> rs, Relationships |-> Second(es)] :
        rs \in WorkloadLists, es \in SubSeqs(WorkloadEdges)}

WorkloadInit ==
    /\ MapperIdle
    /\ FanIdle
    /\ QueueIdle
    /\ MainIdle
    /\ ExtraIdle
    /\ failing = {}
    /\ ingresses = <<ScenarioIngress>>
    /\ webSelector = ScenarioSelector
    /\ cancelled = FALSE
    /\ viz \in {NewVisualizer(m) : m \in WorkloadInputs}
    /\ DisableColors \in BOOLEAN
    /\ now = 0
    /\ outputs = <<>>

WorkloadNext ==
    \/ \E showDetails, colorOutput \in BOOLEAN : SetOptions(showDetails, colorOutput)
    \/ Render

SpecWorkload == WorkloadInit /\ [][WorkloadNext]_vars

\* ------------------------------------------------------------------------
\* The relationship view of a RelationshipProcessor over what it has collected
\* ------------------------------------------------------------------------
\* relationships the processors of a RelationshipProcessor can have handed over
RelationViewPool ==
    RelationshipPool
    \cup {Relationship(Resource(ResourceTypeIngress, "default", "site"),
                       Resource(ResourceTypeService, "default", "web"),
                       RelationshipTypeExposes, "exposes via example.com/"),
          Relationship(Resource(ResourceTypeHPA, "default", "web-hpa"),
                       Resource(ResourceTypeDeployment, "default", "web"),
                       RelationshipTypeTargets, "scales between 2 and 5 replicas"),
          Relationship(Resource(ResourceTypeDeployment, "default", "web"),
                       Resource(ResourceTypePod, "default", "web-1"),
                       RelationshipTypeOwns, "controls pod")}

RelationViewInit ==
    /\ MapperIdle
    /\ QueueIdle
    /\ RenderIdle
    /\ MainIdle
    /\ ExtraIdle
    /\ failing = {}
    /\ ingresses = <<ScenarioIngress>>
    /\ webSelector = ScenarioSelector
    /\ cancelled = FALSE
    /\ proc = "Ingress"
    /\ pns = "default"
    /\ ppc = "done"
    /\ items = <<>>
    /\ itemPc = <<>>
    /\ subDone = <<>>
    /\ itemErrCh = <<>>
    /\ perrCh = <<>>
    /\ presources = <<>>
    /\ prelations \in ListsOf(RelationViewPool)
    /\ perr = Nil

RelationViewNext == VisualizeRelationshipsCall

SpecRelationView == RelationViewInit /\ [][RelationViewNext]_vars

\* ------------------------------------------------------------------------
\* A ProcessingQueue taken alone (SpecWaitQueue)
\* ------------------------------------------------------------------------
\* how many tasks the owner adds: none, a few, more than q.errChan holds
TaskCounts == {0, 3, MaxTasks}

\* which of n tasks fail: none, one, every task, every task but the first
FailingTaskSets(n) == {{}, {2} \cap (1..n), 1..n, 2..n}

WaitQueueInit ==
    /\ MapperIdle
    /\ FanIdle
    /\ QueueIdle
    /\ RenderIdle
    /\ MainIdle
    /\ RelIdle
    /\ FilterIdle
    /\ failing = {}
    /\ ingresses = <<ScenarioIngress>>
    /\ webSelector = ScenarioSelector
    /\ cancelled = FALSE
    /\ taskCount \in TaskCounts
    /\ failingTasks \in FailingTaskSets(taskCount)
    /\ wgAdded = 0
    /\ wgReported = 0
    /\ wgDone = 0
    /\ errChan = <<>>
    /\ errChanClosed = FALSE
    /\ queueMetrics = EmptyMetrics
    /\ waitPc = "adding"
    /\ collectorPc = "none"
    /\ collectorErr = 0
    /\ errors = <<>>

WaitQueueNext ==
    \/ AddTask
    \/ TaskReturn
    \/ TaskDone
    \/ Wait_call
    \/ Collector_recv
    \/ Collector_close
    \/ Wait_done
    \/ Wait_collect
    \/ Wait_return

SpecWaitQueue == WaitQueueInit /\ [][WaitQueueNext]_vars

\* ------------------------------------------------------------------------
\* A RelationshipProcessor run on its own (SpecRelProc)
\* ------------------------------------------------------------------------
\* an Ingress whose second path has a backend without a service reference
ResourceBackendIngress ==
    [name |-> "files-ing",
     defaultBackend |-> NoService,
     rules |-> << [host |-> "files.example.com", http |-> TRUE,
                   paths |-> << [path |-> "/", service |-> "web-svc"],
                                [path |-> "/static", service |-> NoService],
                                [path |-> "/api", service |-> "admin-svc"] >>] >>,
     tls |-> <<>>,
     className |-> ""]

RelProcIngresses ==
    {<<ScenarioIngress>>, <<ScenarioIngress, SecondIngress>>,
     <<ResourceBackendIngress, ScenarioIngress>>, <<>>}

RelProcInit ==
    /\ MapperIdle
    /\ FanIdle
    /\ QueueIdle
    /\ RenderIdle
    /\ MainIdle
    /\ WaitIdle
    /\ FilterIdle
    /\ cancelled = FALSE
    /\ webSelector = ScenarioSelector
    /\ ingresses \in RelProcIngresses
    /\ rpNs \in {"default", "restricted"}
    /\ failing \in {f \in Failings : \A x \in f : x[1] = rpNs}
    /\ rpPc = "start"
    /\ rpOut = [p \in Range(RelationshipProcessor_processors) |-> NoOut]
    /\ rpDone = {}
    /\ rpErrCh = <<>>
    /\ rpResources = <<>>
    /\ rpRelations = <<>>
    /\ rpPos = 0
    /\ rpErr = Nil

RelProcNext ==
    \/ RelationshipProcessor_start
    \/ \E p \in Range(RelationshipProcessor_processors) : RelationshipProcessor_run(p)
    \/ \E p \in Range(RelationshipProcessor_processors) : RelationshipProcessor_runPanics(p)
    \/ \E p \in Range(RelationshipProcessor_processors) : RelationshipProcessor_add(p)
    \/ RelationshipProcessor_join
    \/ RelationshipProcessor_listIngresses
    \/ RelationshipProcessor_ingress
    \/ RelationshipProcessor_return

SpecRelProc == RelProcInit /\ [][RelProcNext]_vars

\* the coordinator over a cluster whose first Ingress has a path without a
\* service reference
MapperBackendInit ==
    /\ FanIdle
    /\ QueueIdle
    /\ RenderIdle
    /\ MainIdle
    /\ ExtraIdle
    /\ cancelled = FALSE
    /\ failing \in Failings
    /\ webSelector = ScenarioSelector
    /\ ingresses = <<ResourceBackendIngress, ScenarioIngress>>
    /\ config \in Configs
    /\ pc = "start"
    /\ namespaces = <<>>
    /\ nsIdx = 1
    /\ procDone = {}
    /\ errCh = <<>>
    /\ rm = EmptyResourceMapping
    /\ stdout = <<>>
    /\ processErr = Nil

MapperBackendNext == MapperNext \/ \E p \in Range(Processors) : ProcessorPanic(p)

SpecMapperBackend == MapperBackendInit /\ [][MapperBackendNext]_vars

\* ------------------------------------------------------------------------
\* FilterResources over small inputs (SpecFilter)
\* ------------------------------------------------------------------------
MaxResources == 3

NameWeb == <<"w", "e", "b">>
NameWeb2 == <<"w", "e", "b", "2">>
NameDb == <<"d", "b">>
ValueFront == <<"f", "r", "o", "n", "t">>

LabelledResource(type, namespace, name, labels) ==
    [Type |-> type, Namespace |-> namespace, Name |-> name, Labels |-> labels]

FilterPool ==
    {LabelledResource(ResourceTypePod, "default", NameWeb,
                      [app |-> NameWeb, tier |-> ValueFront]),
     LabelledResource(ResourceTypeService, "default", NameWeb2, [app |-> NameWeb2]),
     LabelledResource(ResourceTypePod, "prod", NameDb, <<>>),
     LabelledResource(ResourceTypeService, "prod", NameWeb,
                      [app |-> NameDb, tier |-> ValueFront])}

FilterLists == UNION {[1..n -> FilterPool] : n \in 0..MaxResources}

NamePatterns ==
    {<<>>, NameWeb, <<"^", "w", "e", "b", "$">>, <<"b", "$">>, <<"w", ".", "b">>,
     <<"^", "d">>}

LabelPatterns ==
    {<<>>, [app |-> NameWeb], [app |-> <<"*", "e", "b">>], [app |-> <<"w", "e", "*">>],
     [app |-> <<"*", "e", "*">>], [tier |-> <<"*">>],
     [app |-> NameWeb, tier |-> ValueFront], [zone |-> <<"*">>]}

Filters ==
    {[Types |-> t, Namespaces |-> n, LabelMatch |-> l, NameMatch |-> m] :
        t \in {<<>>, <<ResourceTypePod>>, <<ResourceTypeService, ResourceTypePod>>},
        n \in {<<>>, <<"prod">>},
        l \in LabelPatterns,
        m \in NamePatterns}

FilterInit ==
    /\ MapperIdle
    /\ FanIdle
    /\ QueueIdle
    /\ RenderIdle
    /\ MainIdle
    /\ WaitIdle
    /\ RelIdle
    /\ failing = {}
    /\ ingresses = <<ScenarioIngress>>
    /\ webSelector = ScenarioSelector
    /\ cancelled = FALSE
    /\ filterResources \in FilterLists
    /\ filter \in Filters
    /\ filterCalls = 0
    /\ filtered = <<>>
    /\ refiltered = <<>>

FilterNext == Filter_call \/ Filter_again

SpecFilter == FilterInit /\ [][FilterNext]_vars
\* ------------------------------------------------------------------------
\* Properties of the coordinator (SpecMapper)
\* ------------------------------------------------------------------------
DefaultOrder == <<"volume", "environment", "environment variable">>

\* the processors of namespace ns whose Process returns no error
Succeeded(ns) ==
    {p \in Range(Processors) : ProcessorProcess(p, ns, DefaultOrder).err = Nil}

\* the resources the succeeded processors of ns have discovered
Discovered(ns) ==
    UNION {Range(ProcessorProcess(p, ns, DefaultOrder).resources) : p \in Succeeded(ns)}

Events(kind) == SelectSeq(stdout, LAMBDA e : e.event = kind)

LayerOf(type) ==
    CASE type = ResourceTypeIngress -> 1
      [] type = ResourceTypeService -> 2
      [] type = ResourceTypeDeployment -> 3
      [] type = ResourceTypeConfigMap -> 4
      [] OTHER -> 0

\* resource r has an entry in its layer of the rendered output
Listed(output, r) ==
    \E i \in 1..Len(output[LayerOf(r.Type)].entries) :
        output[LayerOf(r.Type)].entries[i].resource = r

\* C1: once Process has returned, every resource discovered by a processor that
\* succeeded in a processed namespace is in the resource list the renderer
\* reads, and the resources of the four layer kinds are listed in their layer
C1_DiscoveredResourcesAreRendered ==
    (pc = "done" /\ Events("render") # <<>>) =>
        \A i \in 1..Len(namespaces) :
            \A r \in Discovered(namespaces[i]) :
                /\ r \in Range(rm.Resources)
                /\ LayerOf(r.Type) # 0 => Listed(Events("render")[1].output, r)

\* C3: whatever namespaces fail, Process goes through every namespace in order,
\* renders exactly once, on the graph as assembled, and returns no error
C3_ProcessSurvivesNamespaceFailures ==
    (pc = "done" /\ getNamespaces(config).err = Nil) =>
        /\ Events("namespace") =
             [i \in 1..Len(getNamespaces(config).namespaces) |->
                 Header(getNamespaces(config).namespaces[i])]
        /\ Events("render") = <<Rendered(RenderClusterView(rm))>>
        /\ stdout[Len(stdout)].event = "render"
        /\ processErr = Nil

\* C3 witness: the first of two namespaces failed, the second was processed
\* after it and the renderer ran
C3_Witness ==
    /\ pc = "done"
    /\ Len(namespaces) = 2
    /\ Len(Events("render")) = 1
    /\ \E i \in 1..Len(stdout) :
          /\ stdout[i] = Header(namespaces[2])
          /\ \E j \in 1..(i - 1) :
                stdout[j].event = "warning" /\ stdout[j].namespace = namespaces[1]

\* a warning of the run names namespace ns and the failed listing of kind HPA
HPAWarning(ns) ==
    \E i \in 1..Len(stdout) :
        /\ stdout[i].event = "warning"
        /\ stdout[i].namespace = ns
        /\ \E j \in 1..Len(stdout[i].err) : stdout[i].err[j] = "failed to list HPAs"

OwnsEdges(ns) ==
    {r \in Range(rm.Relationships) :
        r.Type = RelationshipTypeOwns /\ r.Source.Namespace = ns}

AutoscalerEdges(ns) ==
    {r \in Range(rm.Relationships) :
        r.Type = RelationshipTypeTargets /\ r.Source.Type = ResourceTypeHPA
          /\ r.Source.Namespace = ns}

\* the Owns edges the Deployments of ns have when every pod is listed
ExpectedOwns(ns) ==
    {Relationship(Resource(ResourceTypeDeployment, ns, d.name),
                  Resource(ResourceTypePod, ns, q.name),
                  RelationshipTypeOwns, "controls pod") :
        <<d, q>> \in {x \in Range(Deployments(ns)) \X Range(Pods(ns)) :
                        x[1].selector \subseteq x[2].labels}}

\* C5: when only the listing of HorizontalAutoscalers fails in a processed
\* namespace, the run completes, the Owns edges of the namespace are in the
\* graph, no autoscaler Targets edge is, and a warning names kind and namespace
C5_HPAListFailureIsWarned ==
    \A i \in 1..Len(namespaces) :
        (/\ pc = "done"
         /\ failing = {<<namespaces[i], ResourceTypeHPA>>}) =>
            /\ processErr = Nil
            /\ OwnsEdges(namespaces[i]) = ExpectedOwns(namespaces[i])
            /\ AutoscalerEdges(namespaces[i]) = {}
            /\ HPAWarning(namespaces[i])

\* C5, what the run does: the failed listing is skipped without a word
C5_HPAListFailureIsSilent ==
    \A i \in 1..Len(namespaces) :
        (/\ pc = "done"
         /\ failing = {<<namespaces[i], ResourceTypeHPA>>}) =>
            /\ processErr = Nil
            /\ OwnsEdges(namespaces[i]) = ExpectedOwns(namespaces[i])
            /\ AutoscalerEdges(namespaces[i]) = {}
            /\ Events("warning") = <<>>


\* the pod template of the Deployment, or the spec of the Pod, a Uses edge starts at
UserSpec(rel) ==
    LET o == CHOOSE x \in Range(Stored(rel.Source.Type, rel.Source.Namespace)) :
                x.name = rel.Source.Name
    IN  IF rel.Source.Type = ResourceTypeDeployment THEN o.template ELSE o.spec

UsesConfigMap(rel) ==
    rel.Type = RelationshipTypeUses /\ rel.Target.Type = ResourceTypeConfigMap

\* the description with the modes the source of rel uses, each once, sorted
ModesSorted(rel) ==
    rel.Description = UsesAs(mapKeysToSlice(usageTypes(UserSpec(rel), rel.Target.Name)))

\* C13: the description of every Uses edge to a ConfigMap lists the usage modes
\* found, each at most once and in lexicographic order, whatever the iteration
\* order of the intermediate set, and names all modes the referencing object uses.
C13_DescriptionListsModesSorted ==
    \A k \in 1..Len(rm.Relationships) :
        UsesConfigMap(rm.Relationships[k]) => ModesSorted(rm.Relationships[k])

\* a run whose graph holds a Uses edge with the three modes in another order
C13_UnsortedDescription ==
    \E k \in 1..Len(rm.Relationships) :
        /\ UsesConfigMap(rm.Relationships[k])
        /\ usageTypes(UserSpec(rm.Relationships[k]), rm.Relationships[k].Target.Name)
              = UsageModes
        /\ rm.Relationships[k].Description
              = "uses as volume, environment variable, environment"

\* processNamespace is entered for a further namespace
NamespaceStarted == pc = "loop" /\ pc' = "wait"

\* C17: once the run's context has been cancelled (Cleanup), the coordinator
\* starts no further namespace (nor does a processor start work on an item it had
\* not begun), and Process eventually returns.
C17_CancelStopsTheRun ==
    /\ [][cancelled => ~NamespaceStarted]_vars
    /\ (cancelled ~> pc = "done")

\* the part that holds: Process returns after a Cleanup
C17_ProcessEventuallyReturns == cancelled ~> pc = "done"

\* the part that fails: no namespace is started after a Cleanup
C17_NoNamespaceAfterCancel == [][cancelled => ~NamespaceStarted]_vars

\* what the run does instead: the remaining namespaces are still entered after a
\* Cleanup, and every processor that runs after it returns an error
C17_ProcessorsFailAfterCancel ==
    (cancelled /\ pc = "wait") =>
        \A p \in Range(Processors) \ procDone :
            ProcessorProcess(p, namespaces[nsIdx],
                             <<"volume", "environment", "environment variable">>).err # Nil

\* a run cancelled before its last namespace, which was entered all the same
C17_NamespaceEnteredAfterCancel ==
    /\ cancelled
    /\ pc = "wait"
    /\ procDone = {}
    /\ nsIdx = 2
    /\ \E k \in 1..Len(stdout) : stdout[k] = Warning(namespaces[1], <<"processor error", "failed to list deployments">>)

\* C18: every per-namespace warning is emitted after the renderer has produced
\* its output: in every run no warning is reported before rendering, and all
\* accumulated warnings are reported once at the end.
C18_WarningsFollowRendering ==
    \A k \in 1..Len(stdout) :
        stdout[k].event = "warning" =>
            \E j \in 1..(k - 1) : stdout[j].event = "render"

\* what the run does instead: a warning is printed as soon as its namespace is
\* joined, so every warning comes before the rendering, which is printed last
C18_WarningsPrecedeRendering ==
    \A k \in 1..Len(stdout) :
        stdout[k].event = "render" =>
            /\ k = Len(stdout)
            /\ \A j \in 1..Len(stdout) : stdout[j].event = "warning" => j < k

\* a finished run with a warning printed before the rendering
C18_WarningBeforeRendering ==
    /\ pc = "done"
    /\ \E j, k \in 1..Len(stdout) :
          j < k /\ stdout[j].event = "warning" /\ stdout[k].event = "render"

\* the processors of namespace ns whose Process returns an error
Failed(ns) == Range(Processors) \ Succeeded(ns)

\* the warnings of the run for namespace ns
WarningsOf(ns) == SelectSeq(stdout, LAMBDA e : e.event = "warning" /\ e.namespace = ns)

\* a warning of the run reports the error of processor p in namespace ns
Reported(ns, p) ==
    \E k \in 1..Len(WarningsOf(ns)) :
        WarningsOf(ns)[k].err = <<"processor error">> \o ProcessorProcess(p, ns, DefaultOrder).err

\* C19: when two or more processors fail in the same namespace, the coordinator
\* collects and reports one warning for each failed kind; no processor's error
\* is dropped because another processor failed first.
C19_EveryFailedKindIsReported ==
    pc = "done" =>
        \A i \in 1..Len(namespaces) :
            Cardinality(Failed(namespaces[i])) >= 2 =>
                /\ \A p \in Failed(namespaces[i]) : Reported(namespaces[i], p)
                /\ Len(WarningsOf(namespaces[i])) = Cardinality(Failed(namespaces[i]))

\* what the run does instead: a namespace with failed processors gets one
\* warning, with the error of the processor that failed first
C19_OnlyTheFirstErrorIsReported ==
    pc = "done" =>
        \A i \in 1..Len(namespaces) :
            /\ Len(WarningsOf(namespaces[i])) = IF Failed(namespaces[i]) = {} THEN 0 ELSE 1
            /\ Failed(namespaces[i]) # {} =>
                  \E p \in Failed(namespaces[i]) : Reported(namespaces[i], p)

\* a finished run where two processors failed in a namespace and one is not reported
C19_ErrorDropped ==
    /\ pc = "done"
    /\ \E i \in 1..Len(namespaces) :
          /\ Cardinality(Failed(namespaces[i])) = 2
          /\ \E p \in Failed(namespaces[i]) : ~Reported(namespaces[i], p)

\* the position of namespace n in the provider's list
NsIndex(n) == CHOOSE i \in 1..Len(NsList) : NsList[i] = n

\* getNamespaces has returned without an error
NamespacesGot == pc \in {"loop", "wait"} \/ (pc = "done" /\ Events("render") # <<>>)

\* C20: getNamespaces returns exactly the explicit namespace when one is
\* configured and exists, whatever the exclusion list contains; otherwise it
\* returns every namespace the provider lists whose name is not in the exclusion
\* list, in the provider's order, with no namespace added or lost.
C20_NamespacesToProcess ==
    /\ (pc # "start" /\ config.Namespace # "" /\ config.Namespace \in Range(NsList)) =>
          NamespacesGot /\ namespaces = <<config.Namespace>>
    /\ (NamespacesGot /\ config.Namespace = "") =>
          /\ Range(namespaces) = Range(NsList) \ Range(config.ExcludeNs)
          /\ \A i, j \in 1..Len(namespaces) :
                i < j => NsIndex(namespaces[i]) < NsIndex(namespaces[j])
    /\ (pc # "start" /\ config.Namespace = ""
          /\ <<"", ResourceTypeNamespace>> \notin failing) => NamespacesGot

\* C20 witness: the explicit namespace is on the exclusion list and is returned
C20_Witness ==
    /\ NamespacesGot
    /\ config.Namespace = "restricted"
    /\ Contains(config.ExcludeNs, "restricted")
    /\ namespaces = <<"restricted">>

\* the other case of C20: no explicit namespace, one listed namespace excluded
C20_Witness_Excluded ==
    /\ NamespacesGot
    /\ config = [Namespace |-> "", ExcludeNs |-> <<"default">>]
    /\ namespaces = <<"restricted">>

\* C21: when namespace resolution fails (the explicit namespace does not exist,
\* or the namespaces cannot be listed), Process returns an error at once: no
\* processor is invoked for any namespace and the renderer does not run.
C21_FailedResolutionEndsTheRun ==
    (pc # "start" /\ getNamespaces(config).err # Nil) =>
        /\ pc = "done"
        /\ processErr = <<"failed to get namespaces">> \o getNamespaces(config).err
        /\ stdout = <<>>
        /\ procDone = {}
        /\ errCh = <<>>
        /\ rm = EmptyResourceMapping

\* C21 witness: the explicit namespace does not exist and Process has returned
C21_Witness ==
    /\ pc = "done"
    /\ config.Namespace = "ghost"
    /\ processErr = <<"failed to get namespaces", "namespace ghost not found">>

\* the other case of C21: the namespaces cannot be listed
C21_Witness_ListRefused ==
    /\ pc = "done"
    /\ config.Namespace = ""
    /\ <<"", ResourceTypeNamespace>> \in failing
    /\ processErr = <<"failed to get namespaces", "namespaces cannot be listed">>

\* ------------------------------------------------------------------------
\* The relationship rules of a Deployment
\* ------------------------------------------------------------------------
\* the pairs (HorizontalAutoscaler, Deployment) of ns whose scale target is the Deployment
ScalePairs(ns) ==
    {<<Resource(ResourceTypeHPA, ns, h.name), Resource(ResourceTypeDeployment, ns, d.name)>> :
        <<h, d>> \in {x \in Range(HPAs(ns)) \X Range(Deployments(ns)) :
                        x[1].targetKind = "Deployment" /\ x[1].targetName = x[2].name}}

\* the pairs (source, target) of a set of relationships
Ends(rels) == {<<r.Source, r.Target>> : r \in rels}

\* the Owns pairs of ns in the graph are those of a Deployment and a Pod it selects
OwnsIffSelected(ns) == Ends(OwnsEdges(ns)) = Ends(ExpectedOwns(ns))

\* C24: after a run, in every processed namespace whose Deployments were listed, the
\* Owns edges are exactly the pairs (D, P) where the labels of P satisfy the selector
\* of D when the Pods could be listed, and when they could not, the autoscaler rule of
\* the Deployments has still given its Targets edges
C24_OwnsIffSelectedAndRulesIndependent ==
    \A i \in 1..Len(namespaces) :
        (pc = "done" /\ processErr = Nil
           /\ <<namespaces[i], ResourceTypeDeployment>> \notin failing) =>
            /\ <<namespaces[i], ResourceTypePod>> \notin failing => OwnsIffSelected(namespaces[i])
            /\ failing = {<<namespaces[i], ResourceTypePod>>} =>
                   Ends(AutoscalerEdges(namespaces[i])) = ScalePairs(namespaces[i])

\* what holds: the Owns edges are those of the selected Pods whenever the Pods are
\* listed, and none when they are not
C24_OwnsIffSelected ==
    \A i \in 1..Len(namespaces) :
        (pc = "done" /\ processErr = Nil
           /\ <<namespaces[i], ResourceTypeDeployment>> \notin failing) =>
            IF <<namespaces[i], ResourceTypePod>> \notin failing
            THEN OwnsIffSelected(namespaces[i])
            ELSE OwnsEdges(namespaces[i]) = {}

\* the failed Pod listing of default has taken the autoscaler edge of web with it
C24_PodFailureDropsAutoscalerEdge ==
    /\ pc = "done" /\ processErr = Nil
    /\ failing = {<<"default", ResourceTypePod>>}
    /\ "default" \in Range(namespaces)
    /\ ScalePairs("default") # {}
    /\ AutoscalerEdges("default") = {}

\* a run where the Pods are listed and a Deployment owns some and not others
C24_OwnsWitness ==
    /\ pc = "done" /\ failing = {} /\ "default" \in Range(namespaces)
    /\ OwnsEdges("default") # {}
    /\ Cardinality(OwnsEdges("default")) <
           Cardinality(Range(Deployments("default"))) * Cardinality(Range(Pods("default")))

\* C25, the sequential processor: after a run, in every processed namespace whose
\* Deployments, Pods and autoscalers were listed, the Targets edges from autoscalers
\* are those of the pairs (H, D) where H scales the Deployment D, each described by
\* the replica bounds of H
C25_SequentialTargetsEdgeIffScaleTarget ==
    \A i \in 1..Len(namespaces) :
        (pc = "done" /\ processErr = Nil
           /\ {<<namespaces[i], ResourceTypeDeployment>>, <<namespaces[i], ResourceTypePod>>,
               <<namespaces[i], ResourceTypeHPA>>} \cap failing = {}) =>
            /\ Ends(AutoscalerEdges(namespaces[i])) = ScalePairs(namespaces[i])
            /\ \A r \in AutoscalerEdges(namespaces[i]) :
                  \E h \in Range(HPAs(namespaces[i])) :
                      /\ h.name = r.Source.Name
                      /\ r.Description = "scales between " \o IntString(h.minReplicas)
                              \o " and " \o IntString(h.maxReplicas) \o " replicas"

C25_SequentialWitness ==
    /\ pc = "done" /\ failing = {} /\ "default" \in Range(namespaces)
    /\ Cardinality(AutoscalerEdges("default")) = 1

\* ------------------------------------------------------------------------
\* Append-only relationships
\* ------------------------------------------------------------------------
PrefixOf(s, t) == Len(s) <= Len(t) /\ SubSeq(t, 1, Len(s)) = s

\* C30: every step of a run leaves the relationship sequence of the graph as it is or
\* extends it at its end: the sequence before is a prefix of the sequence after, so
\* no relationship is removed, reordered or merged, whichever processors complete
\* in whichever order and namespace
C30_RelationshipsAppendOnly ==
    [][PrefixOf(rm.Relationships, rm'.Relationships)]_vars

\* a finished run over both namespaces: the relationships of default, inserted first,
\* still come before those of restricted, and several processors have inserted
C30_Witness ==
    /\ pc = "done" /\ failing = {} /\ namespaces = <<"default", "restricted">>
    /\ \E i, j \in 1..Len(rm.Relationships) :
          /\ i < j
          /\ rm.Relationships[i].Source.Namespace = "default"
          /\ rm.Relationships[j].Source.Namespace = "restricted"
    /\ \A i, j \in 1..Len(rm.Relationships) :
          (rm.Relationships[i].Source.Namespace = "restricted"
             /\ rm.Relationships[j].Source.Namespace = "default") => j < i
    /\ Cardinality({r.Source.Type : r \in Range(rm.Relationships)}) >= 2

\* C33, the coordinator: errCh of processNamespace has room for every processor
\* goroutine that has not returned
C33_CoordinatorChannelHasRoom ==
    Len(errCh) + Cardinality(Range(Processors) \ procDone) <= Len(Processors)

\* C33, the coordinator: with its goroutines scheduled, Process returns
C33_CoordinatorTerminates == <>(pc = "done")

\* C36, the coordinator: in a namespace with an Ingress path without a service
\* reference no run of C36's cluster passes the Service processor
C36_CoordinatorPanicked == pc = "panic" /\ "Service" \notin procDone
\* ------------------------------------------------------------------------
\* Properties of the fan-out processors (SpecFanout)
\* ------------------------------------------------------------------------
Returned == ppc = "done"

PrimaryListed == <<pns, PrimaryKind(proc)>> \notin failing

Exists(kind, ns, name) == \E i \in 1..Len(Stored(kind, ns)) : Stored(kind, ns)[i].name = name

\* the number of times x occurs in the sequence s
Count(s, x) == Cardinality({i \in 1..Len(s) : s[i] = x})

\* every schedule of the goroutines returns an error exactly when the list-order
\* schedule does, and leaves the same resources and relationships, each as often
FanOutcomeIsEverySchedule ==
    Returned =>
        /\ (perr = Nil) = (FanOutcome(proc, pns).err = Nil)
        /\ PrimaryListed =>
              /\ \A r \in Range(presources) \cup Range(FanOutcome(proc, pns).resources) :
                    Count(presources, r) = Count(FanOutcome(proc, pns).resources, r)
              /\ \A r \in Range(prelations) \cup Range(FanOutcome(proc, pns).relations) :
                    Count(prelations, r) = Count(FanOutcome(proc, pns).relations, r)

\* C4: Process returns an error only when the List of its own primary kind
\* fails; a failed List inside a per-item subtask (pods, HPAs, ingresses) never
\* makes Process return an error.
C4_OnlyPrimaryListFailureIsAnError ==
    Returned => ((perr # Nil) = ~PrimaryListed)

\* what the code does instead: with the primary List served, Process returns an
\* error exactly when a subtask of one of the items reported one
C4_SubtaskFailureFailsProcess ==
    (Returned /\ PrimaryListed) =>
        ((perr # Nil) = (\E i \in 1..Len(items) : itemErrCh[i] # <<>>))

\* the cross-references of an item: <<kind, namespace, name>> of every object
\* the processor looks up with Get
CrossRefs(p, ns, item) ==
    CASE p = "Ingress" ->
           {<<ResourceTypeSecret, ns, item.tls[i].secretName>> : i \in 1..Len(item.tls)}
           \cup {<<ResourceTypeService, ns, IngressPaths(item)[j].service>> :
                    j \in 1..Len(IngressPaths(item))}
           \cup {<<ResourceTypeService, ns, item.defaultBackend>>,
                 <<ResourceTypeIngressClass, "", item.className>>}
      [] p = "Deployment" ->
           {<<ResourceTypeConfigMap, ns, n>> : n \in configMapNames(item)}
      [] OTHER -> {}

RefResource(ref) == Resource(ref[1], ref[2], ref[3])

\* the references of the item that name an object (an empty name names none)
NamedRefs(p, ns, item) == {ref \in CrossRefs(p, ns, item) : ref[3] # ""}

MissingRefs(p, ns, item) ==
    {ref \in NamedRefs(p, ns, item) : ~Exists(ref[1], ref[2], ref[3])}

\* C6: when the Get of a cross-referenced object fails (TLS Secret, ConfigMap of
\* a pod template, backend Service, IngressClass), no resource and no edge is
\* added for that reference, every reference of the item whose object exists
\* still gets its resource and its edge, Process returns no error because of
\* it and nothing is printed.
C6_FailedGetIsSkippedSilently ==
    (Returned /\ PrimaryListed /\ proc \in {"Ingress", "Deployment"}) =>
        /\ \A i \in 1..Len(items) :
              \A ref \in NamedRefs(proc, pns, items[i]) :
                 IF Exists(ref[1], ref[2], ref[3])
                 THEN /\ RefResource(ref) \in Range(presources)
                      /\ \E r \in Range(prelations) :
                            /\ r.Source = ItemResource(proc, pns, items[i])
                            /\ r.Target = RefResource(ref)
                 ELSE /\ RefResource(ref) \notin Range(presources)
                      /\ \A r \in Range(prelations) :
                            r.Target # RefResource(ref) /\ r.Source # RefResource(ref)
        /\ (failing = {}) => perr = Nil
        /\ stdout = <<>>

\* C6 witness: an Ingress whose first TLS secret, default backend and class do
\* not exist and whose second TLS secret and second path backend do; Process
\* has returned with exactly the two edges of the objects that exist
C6_Witness ==
    /\ Returned
    /\ proc = "Ingress"
    /\ ingresses = <<IngressOf(<<"ghost-tls", "web-tls">>, "ghost-svc",
                               <<"ghost-svc", "web-svc">>, "ghost-class")>>
    /\ perr = Nil
    /\ Cardinality(MissingRefs(proc, pns, items[1])) = 3
    /\ Len(prelations) = 2

\* the backend occurrences of an Ingress: the default backend and every HTTP
\* path backend, in declared order
BackendOccurrences(ing) ==
    (IF ing.defaultBackend # NoService THEN <<ing.defaultBackend>> ELSE <<>>)
    \o SelectSeq([j \in 1..Len(IngressPaths(ing)) |-> IngressPaths(ing)[j].service],
                 LAMBDA n : n # NoService)

ExposesEdges(ns, ing) ==
    SelectSeq(prelations, LAMBDA r : /\ r.Source = IngressResource(ns, ing)
                                     /\ r.Type = RelationshipTypeExposes)

\* C10: the Ingress processor adds one Exposes edge for every backend
\* occurrence (default backend, HTTP path backend) that names an existing
\* Service, so two occurrences of one Service give two edges.
C10_OneExposesEdgePerBackendOccurrence ==
    (Returned /\ proc = "Ingress" /\ PrimaryListed) =>
        \A i \in 1..Len(items) :
           Len(ExposesEdges(pns, items[i])) =
              Len(SelectSeq(BackendOccurrences(items[i]),
                            LAMBDA n : Exists(ResourceTypeService, pns, n)))

\* what the code does instead: one Exposes edge for every existing Service the
\* Ingress names, however often it names it
C10_OneExposesEdgePerService ==
    (Returned /\ proc = "Ingress" /\ PrimaryListed) =>
        \A i \in 1..Len(items) :
           Len(ExposesEdges(pns, items[i])) =
              Cardinality({n \in Range(BackendOccurrences(items[i])) :
                              Exists(ResourceTypeService, pns, n)})

\* a Targets edge from Service svc to Pod pod of namespace ns among rels
TargetsEdge(rels, ns, svc, pod) ==
    \E r \in Range(rels) :
       /\ r.Type = RelationshipTypeTargets
       /\ ResourceKey(r.Source) = ResourceKey(ServiceResource(ns, svc))
       /\ r.Target = Resource(ResourceTypePod, ns, pod.name)

\* the selector of svc has entries and the labels of pod hold each of them
Selects(svc, pod) ==
    svc.hasSelector /\ svc.selector # {} /\ svc.selector \subseteq pod.labels

C11_EmptySelectorFailsService ==
    (Returned /\ proc = "Service" /\ pns = "default" /\ PrimaryListed
              /\ webSelector = Selector({})) =>
        /\ perr # Nil
        /\ \A j \in 1..Len(Pods(pns)) :
              ~TargetsEdge(prelations, pns, items[1], Pods(pns)[j])


\* the ConfigMapProcessor of config.go does sort: each of its Uses edges lists
\* the modes sorted
C13_ConfigMapProcessorSorts ==
    proc = "ConfigMap" =>
        \A k \in 1..Len(prelations) :
            UsesConfigMap(prelations[k]) => ModesSorted(prelations[k])

\* the DeploymentProcessor names no mode: its Uses edges all read "uses config"
C13_DeploymentProcessorNamesNoMode ==
    proc = "Deployment" =>
        \A k \in 1..Len(prelations) :
            UsesConfigMap(prelations[k]) => prelations[k].Description = "uses config"

\* the fan-out processors after a cancellation: no item goroutine starts its work
C17_NoItemAfterCancel ==
    [][cancelled => \A i \in 1..Len(items) :
                       (itemPc[i] = "new" => itemPc'[i] = "new")]_vars

\* C24, the fan-out processor: when only the Pods cannot be listed, the autoscaler and
\* ConfigMap subtasks of every Deployment have still added their edges to the
\* processor, and Process returns the error that makes its callers drop them
C24_FanOutKeepsRulesButFails ==
    (Returned /\ proc = "Deployment" /\ failing = {<<pns, ResourceTypePod>>}) =>
        /\ perr # Nil
        /\ {<<r.Source, r.Target>> : r \in {x \in Range(prelations) :
                x.Type = RelationshipTypeTargets}} = ScalePairs(pns)
        /\ \A r \in Range(prelations) : r.Type # RelationshipTypeOwns

\* ------------------------------------------------------------------------
\* The autoscaler rule
\* ------------------------------------------------------------------------
\* the Targets edges from the autoscaler h to the Deployment d among rels
ScaleEdges(rels, ns, h, d) ==
    SelectSeq(rels, LAMBDA r : /\ r.Type = RelationshipTypeTargets
                               /\ r.Source = Resource(ResourceTypeHPA, ns, h.name)
                               /\ r.Target = DeploymentResource(ns, d))

\* C25: once the Deployment processor has returned with the Deployments and the
\* autoscalers of its namespace listed, for every autoscaler H and Deployment D of
\* the namespace there is a Targets edge H -> D iff the scale target of H has kind
\* Deployment and the name of D; the edge is one, and its description carries the
\* minimum and maximum replicas of H
C25_TargetsEdgeIffScaleTarget ==
    (Returned /\ proc = "Deployment" /\ PrimaryListed
       /\ <<pns, ResourceTypeHPA>> \notin failing) =>
        \A h \in Range(HPAs(pns)) : \A d \in Range(Deployments(pns)) :
            IF h.targetKind = "Deployment" /\ h.targetName = d.name
            THEN /\ Len(ScaleEdges(prelations, pns, h, d)) = 1
                 /\ ScaleEdges(prelations, pns, h, d)[1].Description =
                        "scales " \o IntString(h.minReplicas) \o "-"
                                  \o IntString(h.maxReplicas) \o " replicas"
            ELSE ScaleEdges(prelations, pns, h, d) = <<>>

\* default: web-hpa scales web, web-set-hpa scales a StatefulSet of that name and
\* ghost-hpa a Deployment that does not exist
C25_Witness ==
    /\ Returned /\ proc = "Deployment" /\ pns = "default" /\ failing = {}
    /\ \E r \in Range(prelations) :
          /\ r.Type = RelationshipTypeTargets
          /\ r.Source.Name = "web-hpa" /\ r.Target.Name = "web"
          /\ r.Description = "scales 2-5 replicas"
    /\ \A r \in Range(prelations) : r.Source.Name \notin {"web-set-hpa", "ghost-hpa"}

\* C30, inside a processor: addResource and addRelationship only extend p.resources
\* and p.relations at their end, under every interleaving of the goroutines
C30_ProcessorAppendsOnly ==
    [][PrefixOf(prelations, prelations') /\ PrefixOf(presources, presources')]_vars

\* ------------------------------------------------------------------------
\* What the return of Process means for its goroutines
\* ------------------------------------------------------------------------
\* every item goroutine Process started and every subtask goroutine an item
\* started has returned
AllGoroutinesFinished ==
    \A i \in 1..Len(items) :
        /\ itemPc[i] = "done"
        /\ proc # "Ingress" => subDone[i] = Range(Subtasks(proc))

\* C31: when Process of a processor has returned, with or without an error, every
\* item goroutine and every subtask goroutine it started has returned, and from
\* then on no step changes what GetResources and GetRelationships return
C31_ReturnedProcessIsQuiescent ==
    [][ppc' = "done" =>
          /\ AllGoroutinesFinished'
          /\ ppc = "done" => (presources' = presources /\ prelations' = prelations)]_vars

\* C31 witness: the Deployment processor returned an error over default, after
\* the two item goroutines and their three subtasks each had added what they found
C31_Witness ==
    /\ ppc = "done" /\ proc = "Deployment" /\ pns = "default"
    /\ perr # Nil /\ PrimaryListed
    /\ Len(items) = 2 /\ AllGoroutinesFinished
    /\ Len(presources) > 2 /\ prelations # <<>>

\* C31 witness, no error: the Service processor returned nil
C31_Witness_NoError ==
    /\ ppc = "done" /\ proc = "Service" /\ perr = Nil
    /\ items # <<>> /\ AllGoroutinesFinished /\ prelations # <<>>

\* ------------------------------------------------------------------------
\* Termination of the fan-outs
\* ------------------------------------------------------------------------
\* the subtask goroutines of item i that have not returned yet
PendingSubtasks(i) == Range(Subtasks(proc)) \ subDone[i]

\* the item goroutines that have not sent or returned yet
PendingItems == {i \in 1..Len(items) : itemPc[i] # "done"}

\* every goroutine that may still send an error finds room in its channel
ChannelsHaveRoom ==
    /\ \A i \in 1..Len(items) :
          proc # "Ingress" =>
              Len(itemErrCh[i]) + Cardinality(PendingSubtasks(i)) <= ItemErrChanCap
    /\ Len(perrCh) + Cardinality(PendingItems) <= ProcessErrChanCap(items)

C36_IngressProcessorSkipsThePath ==
    (Returned /\ proc = "Ingress" /\ PrimaryListed) =>
        /\ perr = Nil
        /\ \A k \in 1..Len(prelations) : prelations[k].Target.Name # NoService
        /\ \A i \in 1..Len(items) : \A j \in 1..Len(IngressPaths(items[i])) :
              LET s == IngressPaths(items[i])[j].service
              IN  (s # NoService /\ Exists(ResourceTypeService, pns, s)) =>
                      \E k \in 1..Len(prelations) :
                          /\ prelations[k].Type = RelationshipTypeExposes
                          /\ prelations[k].Target.Name = s

\* the fan-out IngressProcessor has returned over an Ingress whose first path has
\* no service reference and whose second path has one
C36_IngressProcessorSkipped ==
    /\ Returned /\ proc = "Ingress" /\ perr = Nil /\ Len(items) = 1
    /\ Len(IngressPaths(items[1])) = 2
    /\ IngressPaths(items[1])[1].service = NoService
    /\ IngressPaths(items[1])[2].service = "web-svc"
    /\ \E k \in 1..Len(prelations) : prelations[k].Target.Name = "web-svc"

\* ------------------------------------------------------------------------
\* The endpoint count of a Service
\* ------------------------------------------------------------------------
\* the Endpoints object of svc exists
HasEndpoints(ns, svc) == ~Get("Endpoints", ns, svc.name).err

\* the part of the status details that carries the count of svc
EndpointsDetail(ns, svc) ==
    ", Endpoints: "
      \o IntString(activeEndpoints(Get("Endpoints", ns, svc.name).item.addresses))
      \o " active"

\* the Service resources of svc stored in p.resources
StoredServices(svc) ==
    SelectSeq(presources, LAMBDA r : r.Type = ResourceTypeService /\ r.Name = svc.name)

\* C38: once the Service processor has processed a Service whose Endpoints
\* object exists, the Service resource stored in the processor's resources
\* carries the count of active endpoint addresses in its status details
C38_StoredServiceCarriesTheEndpointCount ==
    (Returned /\ proc = "Service" /\ PrimaryListed) =>
        \A i \in 1..Len(items) :
            HasEndpoints(pns, items[i]) =>
                /\ StoredServices(items[i]) # <<>>
                /\ \A k \in 1..Len(StoredServices(items[i])) :
                      EndpointsDetail(pns, items[i])
                          \in Range(StoredServices(items[i])[k].Status.Details)

\* what the code does: the stored resource keeps the details getServiceStatus
\* gave it, while processEndpoints' own copy carries the count
C38_CountStaysInTheLocalCopy ==
    (proc = "Service" /\ ppc \in {"wait", "done"}) =>
        \A i \in 1..Len(items) :
            /\ \A k \in 1..Len(StoredServices(items[i])) :
                  StoredServices(items[i])[k].Status = getServiceStatus(items[i])
            /\ HasEndpoints(pns, items[i]) =>
                  EndpointsDetail(pns, items[i]) \in
                      Range(ServiceProcessor_processEndpoints_local(pns, items[i],
                                ServiceResource(pns, items[i])).Status.Details)

\* a run of C38's divergence: web-svc has three endpoint addresses, its three
\* subtasks have returned, Process has returned nil and the stored resource has
\* the cluster IP as its only detail
C38_StoredServiceWithoutTheCount ==
    /\ Returned /\ proc = "Service" /\ pns = "default" /\ perr = Nil
    /\ \E i \in 1..Len(items) :
          /\ items[i].name = "web-svc"
          /\ EndpointsDetail(pns, items[i]) = ", Endpoints: 3 active"
          /\ Len(StoredServices(items[i])) = 1
          /\ StoredServices(items[i])[1].Status.Details = <<"ClusterIP: 10.0.0.10">>
\* ------------------------------------------------------------------------
\* Properties of ProcessResources (SpecQueue)
\* ------------------------------------------------------------------------
\* queue.Wait returned through <-done (every task had called wg.Done) and
\* ProcessResources handed result to its caller
Joined == qpc = "returned" /\ ~cancelled

\* the tasks whose Process returned no error
Successful == {i \in Tasks : tout[i].err = Nil}

PrimaryListFailed(i) == <<qns, PrimaryKind(processors[i])>> \in failing

RECURSIVE SumRelations(_)
SumRelations(S) ==
    IF S = {} THEN 0
    ELSE LET i == CHOOSE x \in S : TRUE
         IN  Len(tout[i].relations) + SumRelations(S \ {i})

\* the entries of the aggregated resource list with the key of r
Entries(r) == {k \in 1..Len(result.Resources) : ResourceKey(result.Resources[k]) = ResourceKey(r)}

\* C2: when the primary List of one processor fails, that processor contributes
\* nothing, and once the join has returned the aggregate holds all the
\* resources and relationships of every sibling that succeeded and nothing else.
C2_FailedListLeavesSiblingsComplete ==
    (Joined /\ \E i \in Tasks : PrimaryListFailed(i)) =>
        /\ \A i \in Tasks : PrimaryListFailed(i) => i \notin Successful
        /\ Range(result.Resources) = UNION {Range(tout[j].resources) : j \in Successful}
        /\ Range(result.Relations) = UNION {Range(tout[j].relations) : j \in Successful}

\* C7: when two processors report a resource with the same (kind, namespace,
\* name), the aggregated resource list holds exactly one entry for it after
\* the join.
C7_OneEntryPerResourceKey ==
    Joined =>
        \A i \in Successful : \A k \in 1..Len(tout[i].resources) :
           Cardinality(Entries(tout[i].resources[k])) = 1

\* the check-then-insert race on its own: no key has two entries after the join
C7_NoDuplicateEntries ==
    Joined => \A r \in Range(result.Resources) : Cardinality(Entries(r)) <= 1

\* C8: no update of the shared aggregate is lost: after the join the number of
\* aggregated relationships, and the RelationsDiscovered counter, equal the sum
\* of the relationship counts of the processors that succeeded.
C8_NoUpdateIsLost ==
    Joined =>
        /\ Len(result.Relations) = SumRelations(Successful)
        /\ result.Metrics.RelationsDiscovered = SumRelations(Successful)

\* C9: once ProcessResources has returned result to its caller, no task writes
\* to its resources or relationships any more, cancelled context or not.
C9_NoWriteAfterReturn ==
    [][qpc = "returned" =>
          /\ result.Resources' = result.Resources
          /\ result.Relations' = result.Relations]_vars

\* without cancellation the join does order every write before the return
C9_NoWriteAfterJoin ==
    [][Joined =>
          /\ result.Resources' = result.Resources
          /\ result.Relations' = result.Relations]_vars


\* the number of Uses edges from Deployment d to ConfigMap c of namespace ns in rels
UsesEdges(rels, ns, d, c) ==
    Cardinality({k \in 1..Len(rels) :
                    /\ rels[k].Type = RelationshipTypeUses
                    /\ rels[k].Source = Resource(ResourceTypeDeployment, ns, d)
                    /\ rels[k].Target = Resource(ResourceTypeConfigMap, ns, c)})

\* the pairs (Deployment, ConfigMap) of ns whose pod template references the
\* ConfigMap by volume, envFrom and per-key env at once
UsedInEveryMode(ns) ==
    {<<Deployments(ns)[i].name, ConfigMaps(ns)[j].name>> :
        i \in {i \in 1..Len(Deployments(ns)) :
                 \E j \in 1..Len(ConfigMaps(ns)) :
                    usageTypes(Deployments(ns)[i].template, ConfigMaps(ns)[j].name)
                       = UsageModes},
        j \in {j \in 1..Len(ConfigMaps(ns)) :
                 \E i \in 1..Len(Deployments(ns)) :
                    usageTypes(Deployments(ns)[i].template, ConfigMaps(ns)[j].name)
                       = UsageModes}}

\* a discovery run of the Deployment and the ConfigMap processor that the
\* provider served in full and that has returned
DiscoveryRunDone ==
    /\ Joined
    /\ failing = {}
    /\ \E i \in Tasks : processors[i] = "Deployment"
    /\ \E i \in Tasks : processors[i] = "ConfigMap"

\* C12: after a discovery run over a namespace where a Deployment's pod template
\* references ConfigMap C by volume, envFrom and per-key env at once, the graph
\* holds exactly one Uses edge from that Deployment to C.
C12_OneUsesEdgePerDeploymentAndConfigMap ==
    DiscoveryRunDone =>
        \A pair \in UsedInEveryMode(qns) :
            UsesEdges(result.Relations, qns, pair[1], pair[2]) = 1

\* what the code does instead: each of the two processors reports its own edge,
\* so the graph holds two whenever no append of a task was lost
C12_EachProcessorAddsItsEdge ==
    (DiscoveryRunDone /\ Len(result.Relations) = SumRelations(Successful)) =>
        \A pair \in UsedInEveryMode(qns) :
            /\ UsesEdges(result.Relations, qns, pair[1], pair[2]) = 2
            /\ \A i \in Tasks : UsesEdges(tout[i].relations, qns, pair[1], pair[2]) = 1

\* a run where the case of C12 happened and both edges are in the graph
C12_TwoEdges ==
    /\ DiscoveryRunDone
    /\ UsedInEveryMode(qns) # {}
    /\ \E pair \in UsedInEveryMode(qns) :
          UsesEdges(result.Relations, qns, pair[1], pair[2]) = 2

\* C30, the aggregate of ProcessResources: its relationship list is written back
\* without a lock, so a step can drop what another task has appended
C30_AggregateAppendsOnly ==
    [][PrefixOf(result.Relations, result'.Relations)]_vars
\* ------------------------------------------------------------------------
\* Properties of the renderer (SpecRender)
\* ------------------------------------------------------------------------
\* C14: running RenderClusterView twice on the same unchanged mapping and options
\* produces identical output: the output depends on nothing but the mapping and
\* the options, not on the time of the call or on process-wide state.
C14_SameInputSameOutput ==
    \A i, j \in 1..Len(outputs) :
        (/\ outputs[i].mapping = outputs[j].mapping
         /\ outputs[i].showDetails = outputs[j].showDetails
         /\ outputs[i].colorOutput = outputs[j].colorOutput) =>
            outputs[i].output = outputs[j].output

\* what does hold: between two calls on the same mapping and options only the
\* header and the colour of the layer headers can differ
C14_OnlyHeaderAndColoursDiffer ==
    \A i, j \in 1..Len(outputs) :
        (/\ outputs[i].mapping = outputs[j].mapping
         /\ outputs[i].colorOutput = outputs[j].colorOutput) =>
            /\ outputs[i].output.layers = outputs[j].output.layers
            /\ outputs[i].output.bullet = outputs[j].output.bullet

\* two calls on the same mapping and options, at the same clock reading, that
\* differ because DisableColors was set in between
C14_DiffersByProcessState ==
    \E i, j \in 1..Len(outputs) :
        /\ outputs[i].colorOutput = outputs[j].colorOutput
        /\ outputs[i].showDetails = outputs[j].showDetails
        /\ outputs[i].output.header[3] # outputs[j].output.header[3]
        /\ outputs[i].output.layerHeaders # outputs[j].output.layerHeaders
        /\ now = 0

\* two calls on the same mapping and options that differ by the time only
C14_DiffersByTime ==
    \E i, j \in 1..Len(outputs) :
        /\ outputs[i].colorOutput = outputs[j].colorOutput
        /\ outputs[i].showDetails = outputs[j].showDetails
        /\ outputs[i].output.layerHeaders = outputs[j].output.layerHeaders
        /\ outputs[i].output.header # outputs[j].output.header

\* two mappings holding the same resources and the same relationships
SameGraph(m1, m2) ==
    /\ Len(m1.Resources) = Len(m2.Resources)
    /\ Range(m1.Resources) = Range(m2.Resources)
    /\ Len(m1.Relationships) = Len(m2.Relationships)
    /\ Range(m1.Relationships) = Range(m2.Relationships)

\* byte order of the namespaces and names of the pools
StringRank(s) ==
    CASE s = "api" -> 1 [] s = "cfg" -> 2 [] s = "default" -> 3
      [] s = "restricted" -> 4 [] s = "web" -> 5 [] s = "web-1" -> 6 [] s = "web-2" -> 7

\* r1 comes before r2 by (namespace, name)
Before(r1, r2) ==
    \/ StringRank(r1.Namespace) < StringRank(r2.Namespace)
    \/ /\ r1.Namespace = r2.Namespace
       /\ StringRank(r1.Name) < StringRank(r2.Name)

\* the entries of a layer are sorted by (namespace, name), and the lines under
\* each by the (namespace, name) of the resource at their other end
LayerSorted(layer, storage) ==
    /\ \A a, b \in 1..Len(layer.entries) :
          a < b => Before(layer.entries[a].resource, layer.entries[b].resource)
    /\ \A e \in 1..Len(layer.entries) : \A a, b \in 1..Len(layer.entries[e].lines) :
          a < b => IF storage
                   THEN Before(layer.entries[e].lines[a].Source,
                               layer.entries[e].lines[b].Source)
                   ELSE Before(layer.entries[e].lines[a].Target,
                               layer.entries[e].lines[b].Target)

\* C15: for any two interleavings of the processors that discover the same set
\* of resources and relationships, the renderer prints the resources of each
\* layer in the same order (by namespace, then name) and the relationship lines
\* under each resource in the same order, whatever the order of the appends.
C15_RenderingIndependentOfAppendOrder ==
    \A c \in 1..Len(outputs) :
        /\ \A k \in 1..4 : LayerSorted(outputs[c].output.layers[k], k = 4)
        /\ \A m \in RenderInputs :
              SameGraph(m, outputs[c].mapping) =>
                  RenderClusterView(m) = outputs[c].output.layers

\* a rendering whose Service layer follows the append order against the sort order
C15_LayerInAppendOrder ==
    \E c \in 1..Len(outputs) :
        /\ outputs[c].mapping.Resources
             = <<Resource(ResourceTypeService, "restricted", "web"),
                 Resource(ResourceTypeService, "default", "api")>>
        /\ Len(outputs[c].output.layers[2].entries) = 2
        /\ Before(outputs[c].output.layers[2].entries[2].resource,
                  outputs[c].output.layers[2].entries[1].resource)

\* the resource of layer k that a relationship line is rendered beneath
LineOwner(rel, k) == IF k = 4 THEN rel.Target ELSE rel.Source

\* the relationship types whose edges layer k shows
LayerTypes(k) ==
    CASE k = 1 -> {RelationshipTypeExposes}
      [] k = 2 -> {RelationshipTypeTargets}
      [] k = 3 -> {RelationshipTypeOwns}
      [] k = 4 -> {RelationshipTypeUses}

\* C16: the relationship lines rendered beneath a resource R are exactly the
\* edges whose source (for the Storage layer: target) has the same kind,
\* namespace and name as R; an edge of a resource with the same kind and name
\* in another namespace is never rendered beneath R.
C16_LinesAreTheEdgesOfTheResource ==
    \A c \in 1..Len(outputs) : \A k \in 1..4 :
        \A e \in 1..Len(outputs[c].output.layers[k].entries) :
            LET entry == outputs[c].output.layers[k].entries[e]
            IN  Range(entry.lines) =
                  {rel \in Range(outputs[c].mapping.Relationships) :
                      /\ rel.Type \in LayerTypes(k)
                      /\ ResourceKey(LineOwner(rel, k)) = ResourceKey(entry.resource)}

\* what does hold: every edge of R is under R, and every line under R is an edge
\* of a resource with R's kind and name
C16_LinesMatchKindAndName ==
    \A c \in 1..Len(outputs) : \A k \in 1..4 :
        \A e \in 1..Len(outputs[c].output.layers[k].entries) :
            LET entry == outputs[c].output.layers[k].entries[e]
            IN  Range(entry.lines) =
                  {rel \in Range(outputs[c].mapping.Relationships) :
                      /\ rel.Type \in LayerTypes(k)
                      /\ LineOwner(rel, k).Type = entry.resource.Type
                      /\ LineOwner(rel, k).Name = entry.resource.Name}

\* a rendering with an edge of another namespace's resource beneath a resource
C16_ForeignEdgeRendered ==
    \E c \in 1..Len(outputs) : \E k \in 1..4 :
        \E e \in 1..Len(outputs[c].output.layers[k].entries) :
            \E l \in 1..Len(outputs[c].output.layers[k].entries[e].lines) :
                LineOwner(outputs[c].output.layers[k].entries[e].lines[l], k).Namespace
                    # outputs[c].output.layers[k].entries[e].resource.Namespace
\* ------------------------------------------------------------------------
\* main and Config.Validate
\* ------------------------------------------------------------------------
\* the command line asks for what the configuration rules refuse
BadNamespace == flags.namespace # <<>> /\ ~IsValidNamespaceName(flags.namespace)
BadFormat == flags.outputFormat \notin validFormats

\* C22: once main has passed cfg.Validate() with an invalid namespace name or an invalid
\* output format, the process has exited with a non-zero code, no client was created and
\* nothing of the mapper, of a processor or of the provider has run
C22_RejectedConfigurationStopsBeforeTheClient ==
    (mainPc \notin {"idle", "parsed"} /\ ~flags.help /\ (BadNamespace \/ BadFormat)) =>
        /\ mainPc = "exited"
        /\ exitCode > 0
        /\ clientCreated = FALSE
        /\ MapperIdle
        /\ FanIdle
        /\ QueueIdle

C22_Witness ==
    /\ mainPc = "exited" /\ exitCode = 1 /\ ~flags.help /\ ~clientCreated
    /\ flags.namespace = <<"D", "e", "v">> /\ flags.outputFormat = "text"
    /\ flags.kubeconfig = ""

C22_Witness_Format ==
    /\ mainPc = "exited" /\ exitCode = 1 /\ ~flags.help /\ ~clientCreated
    /\ flags.namespace = <<>> /\ flags.outputFormat = "xml"
    /\ flags.kubeconfig = ""

\* every command line without -h ends in exit 1: the Config main builds has no grouping
C22_MainNeverCreatesTheClient == clientCreated = FALSE

\* the command line without any flag: parseFlags' defaults
DefaultFlags == flags = NoFlags

\* C34: the configuration main builds from the default flags (no namespace, format
\* "text", visual options with only colours, details, compact view and format set)
\* is accepted by Config.Validate, and main goes on to create the mapper
C34_DefaultFlagsAreAccepted ==
    (mainPc \notin {"idle", "parsed"} /\ DefaultFlags) =>
        /\ Validate(mainConfig(flags)) = Nil
        /\ mainPc = "mapper"
        /\ clientCreated

\* what the code does with the default flags: Validate passes the kubeconfig,
\* namespace and format rules and refuses the empty grouping; main exits with 1
C34_DefaultFlagsRefusedForGrouping ==
    (mainPc \notin {"idle", "parsed"} /\ DefaultFlags) =>
        /\ Validate(mainConfig(flags)) = <<"invalid grouping: ">>
        /\ mainPc = "exited"
        /\ exitCode = 1
        /\ ~clientCreated

\* a run of C34's divergence: main was started without flags and has exited with 1
C34_DefaultRunExited ==
    /\ DefaultFlags /\ mainPc = "exited" /\ exitCode = 1 /\ ~clientCreated

\* the defaults of DefaultConfig, which main does not use, pass Validate
C34_DefaultConfigIsValid ==
    Validate([mainConfig(NoFlags) EXCEPT !.VisualOptions = Nil]) = Nil
\* ------------------------------------------------------------------------
\* The rendered workloads
\* ------------------------------------------------------------------------
HasToken(line, t) == \E i \in 1..Len(line) : line[i] = t

\* the three classes of readiness as stated: fully, partially, not ready
FullyReady(ready, desired) == desired = 0 \/ ready = desired
PartiallyReady(ready, desired) == 0 < ready /\ ready < desired
NotReady(ready, desired) == ready = 0 /\ desired > 0

\* the Deployments of the mapping under the Visualizer
DeploymentsOf(mapping) == filterResourcesByType(mapping, ResourceTypeDeployment)

\* the phase the processor recorded follows the classes
PhaseFollows(r) ==
    /\ r.Status.Phase = "Ready" <=> FullyReady(r.Data.ready, r.Data.replicas)
    /\ r.Status.Phase = "PartiallyReady" <=> PartiallyReady(r.Data.ready, r.Data.replicas)
    /\ r.Status.Phase = "NotReady" <=> NotReady(r.Data.ready, r.Data.replicas)

\* the symbol of the status line follows the classes
SymbolFollows(line, r) ==
    /\ HasToken(line, successSymbol) <=> FullyReady(r.Data.ready, r.Data.replicas)
    /\ HasToken(line, warningSymbol) <=> PartiallyReady(r.Data.ready, r.Data.replicas)
    /\ HasToken(line, errorSymbol) <=> NotReady(r.Data.ready, r.Data.replicas)

\* the status lines of a call: the detail line of every Deployment that has one
StatusLinesFollow(call) ==
    LET ds == DeploymentsOf(call.mapping)
    IN  \A i \in 1..Len(ds) :
            call.output.text[3].entries[i].details # <<>> =>
                SymbolFollows(call.output.text[3].entries[i].details[1], ds[i])

\* C23: for all ready and desired counts the phase the processor records and the
\* symbol the renderer prints are: fully ready iff desired = 0 or ready = desired,
\* partially ready iff 0 < ready < desired, not ready iff ready = 0 and desired > 0
C23_StatusFollowsTheClassification ==
    /\ \A i \in 1..Len(viz.resourceMapping.Resources) :
          "Status" \in DOMAIN viz.resourceMapping.Resources[i] =>
              PhaseFollows(viz.resourceMapping.Resources[i])
    /\ \A c \in 1..Len(outputs) : StatusLinesFollow(outputs[c])

\* the classes the code computes: ready = desired; else ready > 0; else the rest
CodePhase(ready, desired) ==
    IF ready = desired THEN "Ready" ELSE IF ready > 0 THEN "PartiallyReady" ELSE "NotReady"

CodeSymbol(ready, desired) ==
    IF ready = desired THEN successSymbol
    ELSE IF ready > 0 THEN warningSymbol ELSE errorSymbol

\* what holds instead: phase and symbol are those of the code's classes, which are the
\* stated ones whenever ready <= desired
C23_StatusFollowsReadyEqualsDesired ==
    /\ \A i \in 1..Len(viz.resourceMapping.Resources) :
          LET r == viz.resourceMapping.Resources[i]
          IN  "Status" \in DOMAIN r =>
                /\ r.Status.Phase = CodePhase(r.Data.ready, r.Data.replicas)
                /\ r.Data.ready <= r.Data.replicas => PhaseFollows(r)
    /\ \A c \in 1..Len(outputs) :
          LET ds == DeploymentsOf(outputs[c].mapping)
          IN  \A i \in 1..Len(ds) :
                LET details == outputs[c].output.text[3].entries[i].details
                IN  details # <<>> =>
                      /\ HasToken(details[1], CodeSymbol(ds[i].Data.ready, ds[i].Data.replicas))
                      /\ ds[i].Data.ready <= ds[i].Data.replicas => SymbolFollows(details[1], ds[i])

\* a Deployment scaled to zero with a replica still ready is recorded as PartiallyReady
C23_ScaledToZeroPartiallyReady ==
    \E i \in 1..Len(viz.resourceMapping.Resources) :
        LET r == viz.resourceMapping.Resources[i]
        IN  /\ "Status" \in DOMAIN r
            /\ r.Data.replicas = 0 /\ r.Data.ready = 1
            /\ r.Status.Phase = "PartiallyReady"

\* a Deployment with more ready than desired replicas is rendered with the warning symbol
C23_MoreReadyThanDesiredWarns ==
    \E c \in 1..Len(outputs) :
        LET ds == DeploymentsOf(outputs[c].mapping)
        IN  \E i \in 1..Len(ds) :
              /\ ds[i].Data.ready = 2 /\ ds[i].Data.replicas = 1
              /\ outputs[c].output.text[3].entries[i].details # <<>>
              /\ HasToken(outputs[c].output.text[3].entries[i].details[1], warningSymbol)

\* the fan-out processor's resources get no status line: their Data is a pointer
C23_NoStatusLineForPointerData ==
    \A c \in 1..Len(outputs) :
        LET ds == DeploymentsOf(outputs[c].mapping)
        IN  \A i \in 1..Len(ds) :
              outputs[c].output.text[3].entries[i].details # <<>>
                  <=> (outputs[c].showDetails /\ ds[i].Data.goType = "appsv1.Deployment")

\* ------------------------------------------------------------------------
\* Autoscale lines
\* ------------------------------------------------------------------------
\* the Targets edges of the mapping from a HorizontalAutoscaler to the Deployment d
AutoscalersOf(mapping, d) ==
    SelectSeq(mapping.Relationships,
        LAMBDA r : /\ r.Type = RelationshipTypeTargets
                   /\ r.Source.Type = ResourceTypeHPA
                   /\ r.Target.Type = ResourceTypeDeployment
                   /\ r.Target.Name = d.Name /\ r.Target.Namespace = d.Namespace)

\* the autoscale lines among the lines printed beneath a resource
AutoscaleLines(entry) == SelectSeq(entry.rels, LAMBDA l : HasToken(l, cycleSymbol))

\* C29: in every output the Workload layer has, beneath each Deployment D, one
\* autoscale line for every Targets edge of the graph from a HorizontalAutoscaler to
\* D, carrying the description of the edge, and no autoscale line for a Deployment
\* without such an edge
C29_AutoscaleLinePerTargetsEdge ==
    \A c \in 1..Len(outputs) :
        LET ds == DeploymentsOf(outputs[c].mapping)
        IN  \A i \in 1..Len(ds) :
              LET edges == AutoscalersOf(outputs[c].mapping, ds[i])
                  lines == AutoscaleLines(outputs[c].output.text[3].entries[i])
              IN  /\ Len(lines) = Len(edges)
                  /\ \A j \in 1..Len(edges) : HasToken(lines[j], edges[j].Description)

\* what holds: no output has an autoscale line
C29_NoAutoscaleLine ==
    \A c \in 1..Len(outputs) : \A k \in 1..4 :
        \A e \in 1..Len(outputs[c].output.text[k].entries) :
            AutoscaleLines(outputs[c].output.text[k].entries[e]) = <<>>

\* web is rendered, web-hpa targets it in the graph, and nothing is printed for it
C29_TargetedDeploymentWithoutLine ==
    \E c \in 1..Len(outputs) :
        LET ds == DeploymentsOf(outputs[c].mapping)
        IN  \E i \in 1..Len(ds) :
              /\ ds[i].Name = "web"
              /\ AutoscalersOf(outputs[c].mapping, ds[i]) # <<>>
              /\ AutoscaleLines(outputs[c].output.text[3].entries[i]) = <<>>
\* ------------------------------------------------------------------------
\* The layers of the rendered output
\* ------------------------------------------------------------------------
\* the header lines of the four layers, in their order
FourLayers ==
    << <<"[Ingress Layer]">>, <<"[Service Layer]">>,
       <<"[Workload Layer]">>, <<"[Storage Layer]">> >>

\* the lines that are the header of a layer
IsLayerHeader(line) ==
    \/ line \in Range(FourLayers)
    \/ \E k \in 1..Len(resourceOrder) : line = <<"[" \o resourceOrder[k] \o " Layer]">>

LayerHeaders(lines) == SelectSeq(lines, IsLayerHeader)

\* C26: in every rendered output the headers of the layers are the four of Ingress,
\* Service, Workload and Storage, once each and in this order, whatever the graph
\* (the empty one included) and the order in which it was discovered
C26_FourLayersOnceInOrder ==
    \A c \in 1..Len(outputs) : LayerHeaders(outputs[c].lines) = FourLayers

\* the relationship view of a processor without relationships has no layer at all
C26_EmptyGraphNoLayer ==
    \E c \in 1..Len(outputs) :
        /\ outputs[c].relations = <<>>
        /\ LayerHeaders(outputs[c].lines) = <<>>

\* the relationship view has a layer per source type with a relationship, named by
\* the type and in the order of resourceOrder
C26_RelationViewLayersBySourceType ==
    \A c \in 1..Len(outputs) :
        LayerHeaders(outputs[c].lines) =
            SelectSeq([k \in 1..Len(resourceOrder) |-> <<"[" \o resourceOrder[k] \o " Layer]">>],
                      LAMBDA h : \E r \in Range(outputs[c].relations) :
                                     h = <<"[" \o r.Source.Type \o " Layer]">>)

\* RenderClusterView prints the four layers once each and in order, with and
\* without colours
C26_ClusterViewFourLayersInOrder ==
    \A c \in 1..Len(outputs) :
        /\ Len(outputs[c].output.text) = 4
        /\ \A k \in 1..4 : stripColorCodes(outputs[c].output.text[k].header) = FourLayers[k]

C26_ClusterViewOfEmptyGraph ==
    \E c \in 1..Len(outputs) :
        /\ outputs[c].mapping = EmptyResourceMapping
        /\ \A k \in 1..4 : outputs[c].output.text[k].entries = <<>>

\* ------------------------------------------------------------------------
\* The tree glyphs
\* ------------------------------------------------------------------------
\* C27: in each layer of every output the last resource and no other is printed with
\* the corner glyph, the others with the branch glyph, and a relationship line under
\* a resource starts with the vertical glyph iff the resource is not the last of its
\* layer, wherever the relationship stands among those of the resource
C27_GlyphsFollowTheLastSibling ==
    \A c \in 1..Len(outputs) : \A k \in 1..4 :
        LET entries == outputs[c].output.text[k].entries
        IN  \A e \in 1..Len(entries) :
              /\ entries[e].line[1] = (IF e = Len(entries) THEN cornerSymbol ELSE branchSymbol)
              /\ \A j \in 1..Len(entries[e].rels) :
                    entries[e].rels[j][1] = verticalLine <=> e # Len(entries)

\* what holds: the resource lines are as stated; a relationship line has the vertical
\* glyph unless it is the last relationship of the last resource; a detail line has
\* it iff the resource is not the last
C27_GlyphsFollowTheLastRelationship ==
    \A c \in 1..Len(outputs) : \A k \in 1..4 :
        LET entries == outputs[c].output.text[k].entries
        IN  \A e \in 1..Len(entries) :
              /\ entries[e].line[1] = (IF e = Len(entries) THEN cornerSymbol ELSE branchSymbol)
              /\ \A j \in 1..Len(entries[e].rels) :
                    entries[e].rels[j][1] = verticalLine
                        <=> ~(e = Len(entries) /\ j = Len(entries[e].rels))
              /\ \A j \in 1..Len(entries[e].details) :
                    entries[e].details[j][1] = verticalLine <=> e # Len(entries)

\* the last Deployment of the layer owns two Pods: the line of the first Pod starts
\* with the vertical glyph
C27_VerticalUnderTheLastResource ==
    \E c \in 1..Len(outputs) :
        LET entries == outputs[c].output.text[3].entries
        IN  /\ Len(entries) = 2
            /\ entries[2].line[1] = cornerSymbol
            /\ Len(entries[2].rels) = 2
            /\ entries[2].rels[1][1] = verticalLine
            /\ entries[2].rels[2][1] # verticalLine

\* ------------------------------------------------------------------------
\* Colours
\* ------------------------------------------------------------------------
\* the lines of a layer and of an output, top to bottom; of the header the title and
\* the rule (its third line carries the time of the call)
LayerLines(layer) ==
    <<layer.header>>
    \o ConcatAll([e \in 1..Len(layer.entries) |->
          <<layer.entries[e].line>> \o layer.entries[e].details \o layer.entries[e].rels])

OutputLines(output) ==
    <<output.header[1], output.header[2]>>
    \o ConcatAll([k \in 1..4 |-> LayerLines(output.text[k])])

HasColour(line) == \E i \in 1..Len(line) : line[i] \in ColorCodes

Stripped(lines) == [i \in 1..Len(lines) |-> stripColorCodes(lines[i])]

\* the call was made with the process-wide DisableColors set
MadeWithColoursDisabled(call) == ~HasColour(call.output.header[1])

\* C28: an output rendered with colorOutput = false holds no colour escape sequence in
\* any line, and it is the output of the same mapping rendered with colorOutput =
\* true with the escape sequences removed, whatever DisableColors was at the calls
C28_NoColourWhenDisabled ==
    \A c \in 1..Len(outputs) :
        ~outputs[c].colorOutput =>
            /\ \A l \in Range(OutputLines(outputs[c].output)) : ~HasColour(l)
            /\ ~HasColour(outputs[c].output.header[3])
            /\ \A d \in 1..Len(outputs) :
                  (/\ outputs[d].colorOutput
                   /\ outputs[d].mapping = outputs[c].mapping
                   /\ outputs[d].showDetails = outputs[c].showDetails) =>
                      Stripped(OutputLines(outputs[d].output)) = OutputLines(outputs[c].output)

\* what holds: colorOutput = false takes the colour from the glyphs only; the header,
\* the layer headers and the resource names lose theirs iff DisableColors is set.
\* The glyph structure is the same in every case.
C28_OptionUncoloursGlyphsOnly ==
    \A c \in 1..Len(outputs) :
        /\ \A k \in 1..4 :
              /\ HasColour(outputs[c].output.text[k].header) <=> ~MadeWithColoursDisabled(outputs[c])
              /\ \A e \in 1..Len(outputs[c].output.text[k].entries) :
                    LET line == outputs[c].output.text[k].entries[e].line
                    IN  /\ HasColour(SubSeq(line, IF outputs[c].colorOutput THEN 8 ELSE 6,
                                         Len(line)))
                            <=> ~MadeWithColoursDisabled(outputs[c])
                        /\ line[4] \in ColorCodes <=> outputs[c].colorOutput
        /\ (~outputs[c].colorOutput /\ MadeWithColoursDisabled(outputs[c])) =>
              \A l \in Range(OutputLines(outputs[c].output)) : ~HasColour(l)
        /\ \A d \in 1..Len(outputs) :
              (/\ outputs[d].mapping = outputs[c].mapping
               /\ outputs[d].showDetails = outputs[c].showDetails) =>
                  Stripped(OutputLines(outputs[d].output))
                      = Stripped(OutputLines(outputs[c].output))

\* an output rendered with colorOutput = false whose layer headers and resource
\* names are coloured
C28_ColouredWithOptionOff ==
    \E c \in 1..Len(outputs) :
        /\ ~outputs[c].colorOutput
        /\ outputs[c].output.text[1].header = <<ColorBlue, "[Ingress Layer]", ColorReset>>
        /\ outputs[c].output.text[2].entries # <<>>
        /\ HasColour(outputs[c].output.text[2].entries[1].line)
        /\ outputs[c].output.text[2].entries[1].line[4] = dotSymbol
\* ------------------------------------------------------------------------
\* ProcessingQueue.Wait (SpecWaitQueue)
\* ------------------------------------------------------------------------
WaitReturned == waitPc = "returned"

\* the tasks that were added and whose function returns an error
FailedTasks == failingTasks \cap (1..wgAdded)

\* C32: on a context that is not cancelled, Wait returns only after every added
\* task has finished, and the list it returns holds exactly one error for each
\* task that returned an error, whatever their number and whenever they fail
C32_WaitReturnsOneErrorPerFailedTask ==
    WaitReturned =>
        /\ wgDone = wgAdded
        /\ Len(errors) = Cardinality(FailedTasks)
        /\ Range(errors) = FailedTasks

\* the first half of C32: Wait returns only after every added task called Done
C32_WaitReturnsAfterEveryTask ==
    WaitReturned => wgDone = wgAdded /\ wgAdded = taskCount

\* what the code does with the errors: as long as no more tasks fail than the
\* channel holds, each failed task has exactly one error in the list; an error
\* that found the channel full is in no list and is counted in the queueMetrics
C32_OneErrorPerFailedTaskWithinCapacity ==
    WaitReturned =>
        /\ Range(errors) \subseteq FailedTasks
        /\ Len(errors) = Cardinality(Range(errors))
        /\ Len(errors) + queueMetrics.ErrorCount = Cardinality(FailedTasks)
        /\ Cardinality(FailedTasks) <= ErrChanCap => queueMetrics.ErrorCount = 0

\* a run of C32's divergence: more tasks failed before the collector could hand
\* anything over than q.errChan holds, and Wait returned fewer errors
C32_DroppedError ==
    /\ WaitReturned
    /\ Cardinality(FailedTasks) > ErrChanCap
    /\ Len(errors) < Cardinality(FailedTasks)
    /\ queueMetrics.ErrorCount > 0

\* with the collector started before the tasks return, one error more than the
\* capacity still reaches the list
C32_CollectorHoldsOneMore ==
    /\ WaitReturned
    /\ Len(errors) = ErrChanCap + 1
\* ------------------------------------------------------------------------
\* RelationshipProcessor.Process (SpecRelProc)
\* ------------------------------------------------------------------------
\* processIngressRelationships has been called
IngressPassStarted == rpPos > 0

\* every sub-processor goroutine has called wg.Done
SubProcessorsReturned == rpDone = Range(RelationshipProcessor_processors)

\* C35: the ingress relationship pass has started only if every sub-processor
\* has returned and none of them returned an error; so no step of the pass is
\* taken while a sub-processor may still write to the relationship list
C35_IngressPassAfterTheSubProcessors ==
    IngressPassStarted =>
        /\ SubProcessorsReturned
        /\ rpErrCh = <<>>
        /\ \A p \in Range(RelationshipProcessor_processors) : rpOut[p] # NoOut

\* C35, as steps: a step of the pass is taken with every sub-processor returned,
\* and a sub-processor's step with the pass not started
C35_NoStepOfThePassBesideASubProcessor ==
    [][/\ (rpResources' # rpResources \/ rpPos' # rpPos) => SubProcessorsReturned
       /\ rpDone' # rpDone => ~IngressPassStarted]_vars

\* C35 witness: the pass has run over two Ingresses after the three
\* sub-processors had added their relationships, and Process returned nil
C35_Witness ==
    /\ rpPc = "done" /\ rpErr = Nil /\ rpPos = 3
    /\ SubProcessorsReturned
    /\ \E k \in 1..Len(rpRelations) :
          /\ rpRelations[k].Source.Type = ResourceTypeIngress
          /\ \E j \in 1..(k - 1) : rpRelations[j].Source.Type = ResourceTypeService

\* C35 witness, the error case: a sub-processor returned an error, Process
\* returned it and the pass never started
C35_Witness_Error ==
    /\ rpPc = "done" /\ rpErr # Nil /\ rpErrCh # <<>> /\ ~IngressPassStarted
    /\ rpRelations # <<>>

\* ------------------------------------------------------------------------
\* Ingress paths whose backend carries no service reference
\* ------------------------------------------------------------------------
\* some Ingress the processors of namespace ns list has such a path
PathWithoutServiceListed(ns) ==
    /\ ~List(ResourceTypeIngress, ns).err
    /\ \E i \in 1..Len(List(ResourceTypeIngress, ns).items) :
          HasPathWithoutService(List(ResourceTypeIngress, ns).items[i])

\* C36: an Ingress path whose backend carries no service reference is skipped:
\* no edge is created for it, and the remaining paths, Ingresses and Services
\* are processed without failure, so the run ends with the edges of the paths
\* that do carry a reference
C36_PathWithoutServiceIsSkipped ==
    PathWithoutServiceListed(rpNs) =>
        /\ rpPc # "panic"
        /\ \A k \in 1..Len(rpRelations) : rpRelations[k].Target.Name # NoService
        /\ (rpPc = "done" /\ rpErr = Nil) =>
               \E k \in 1..Len(rpRelations) :
                   /\ rpRelations[k].Source.Name = "files-ing"
                   /\ rpRelations[k].Target.Name = "admin-svc"

\* what the code does: with such a path listed, Process never returns nil; the
\* program ends in a panic unless a refused List ended Process before
C36_NoNormalReturnWithSuchAPath ==
    (PathWithoutServiceListed(rpNs) /\ rpPc = "done") => rpErr # Nil

\* no edge is ever created for the path itself
C36_NoEdgeForThePath ==
    \A k \in 1..Len(rpRelations) : rpRelations[k].Target.Name # NoService

\* a run of C36's divergence: the Service sub-processor panicked in its ingress scan
C36_ServiceProcessorPanicked ==
    /\ rpPc = "panic" /\ ~IngressPassStarted /\ "Service" \notin rpDone

\* a run of C36's divergence: the ingress pass panicked at the path, after the
\* edge of the path before it and with the path and the Ingress after it unread
C36_IngressPassPanicked ==
    /\ rpPc = "panic" /\ IngressPassStarted /\ rpPos = 1
    /\ \E k \in 1..Len(rpRelations) :
          rpRelations[k].Source.Name = "files-ing" /\ rpRelations[k].Target.Name = "web-svc"
    /\ \A k \in 1..Len(rpRelations) : rpRelations[k].Source.Name # "web-ing"
\* ------------------------------------------------------------------------
\* FilterResources (SpecFilter)
\* ------------------------------------------------------------------------
\* resource r satisfies every criterion that is set in filter f
SatisfiesFilter(r, f) ==
    /\ f.Types # <<>> => r.Type \in Range(f.Types)
    /\ f.Namespaces # <<>> => r.Namespace \in Range(f.Namespaces)
    /\ f.NameMatch # <<>> => MatchString(f.NameMatch, r.Name)
    /\ \A k \in DOMAIN f.LabelMatch :
          k \in DOMAIN r.Labels /\ matchLabelValue(r.Labels[k], f.LabelMatch[k])

\* C37: FilterResources returns, in input order, exactly the resources that
\* satisfy every criterion set in the filter; the filter without a criterion
\* returns every resource; filtering the result with the same filter gives the
\* result again
C37_FilterKeepsExactlyTheMatching ==
    /\ filterCalls >= 1 =>
          /\ filtered = SelectSeq(filterResources, LAMBDA r : SatisfiesFilter(r, filter))
          /\ filter = NoFilter => filtered = filterResources
    /\ filterCalls = 2 => refiltered = filtered

\* C37 witness: of three resources the first and the last are returned, in that
\* order, under a filter with all four criteria set, and filtering again has
\* returned the same
C37_Witness ==
    /\ filterCalls = 2
    /\ Len(filterResources) = 3 /\ Len(filtered) = 2
    /\ filtered = <<filterResources[1], filterResources[3]>>
    /\ filterResources[1] # filterResources[3]
    /\ filter.Types # <<>> /\ filter.NameMatch # <<>> /\ DOMAIN filter.LabelMatch # {}
    /\ refiltered = filtered

\* C37 witness: the filter without a criterion
C37_Witness_NoCriterion ==
    /\ filterCalls = 1 /\ filter = NoFilter
    /\ Len(filterResources) = 3 /\ filtered = filterResources
====
